---- MODULE Spec2Model ----
(***************************************************************************)
(* vijam: the audio pipeline (render queue, render thread, audio callback, *)
(* event channel), modelled from src/src/render.rs, src/src/output.rs and  *)
(* src/src/instrument.rs; the HeldButton note as the render loop drives    *)
(* it (NoteSpec); the render thread's event handling with every parameter  *)
(* kind (EventSpec); the keyspec text conversions (KeyspecSpec), the key   *)
(* dispatch state machine (ConfigSpec) and the play / mute key effects     *)
(* (PlaySpec) of src/src/config.rs.                                        *)
(*                                                                         *)
(* Three threads: the UI thread sends events on the mpsc channel, the      *)
(* render thread drains the channel and pushes one mixed sample per loop   *)
(* iteration, the audio callback pops num_frames samples per invocation.   *)
(* The render queue is shared under one mutex (variable lock).             *)
(***************************************************************************)
EXTENDS Integers, Sequences, FiniteSets, TLC

\* ------------------------------------------------------------------ bounds
\* render.rs:10 sets 1024 and output.rs:7 sets 256; the model scales both
\* down, keeping MAX_BUFFER_CONSUME_SIZE < MAX_BUFFER_SPECULATE_SIZE.
MAX_BUFFER_SPECULATE_SIZE == 3
MAX_BUFFER_CONSUME_SIZE == 2
\* tail_frame is a u64 that only grows; invocations stop at this frame.
MaxFrame == 2
\* Events the UI thread sends in one behaviour, the shutdown signal apart.
MaxEvents == 2
\* Instruments in the vector handed to setup_rendering; iid = NumInstruments
\* is the out-of-range id. Voices are 0 .. NumVoices - 1.
NumInstruments == 1
NumVoices == 2
\* The sleep counter of one callback invocation saturates here.
MaxSleeps == 2
\* Device sample rate (cpal's config.sample_rate), in Hz.
SampleRate == 44100
\* NoteSpec renders relative frames 0 .. MaxTime - 1 of one note.
MaxTime == 4
\* NoteSpec handles MaxNoteEvents events while the note is in the voice map.
MaxNoteEvents == 3
\* ConfigSpec: the mode vector grows to MaxModes modes, the script makes
\* MaxSetup setup calls and has NumLuaFuncs Lua functions to bind.
MaxModes == 2
MaxSetup == 3
NumLuaFuncs == 2
\* KeyspecSpec: a chord text of the script has up to MaxPieces pieces between
\* its hyphens.
MaxPieces == 3
\* PlaySpec: key effects made by mkPlay and mkMute fire MaxCalls times.
MaxCalls == 2
\* InputSpec: the window events the key-event model handles in one behaviour.
MaxWindowEvents == 5

\* ------------------------------------------------------------- data model
\* Option<FrameInstant>::None
NoFrame == -1

\* NoteParams::default(), amplitude and articulation in thousandths.
DefaultParams == [pitch |-> 44, amplitude |-> 100, articulation |-> 500]

\* NoteParams::apply: one field overwritten.
Apply(params, param) == [params EXCEPT ![param.field] = param.value]

\* The NoteParam values the UI thread sends (input.rs and config.rs only
\* ever send Pitch).
ParamInputs == {[field |-> "pitch", value |-> 440]}

\* The NoteParam values of NoteSpec and EventSpec: a second pitch and an
\* amplitude (thousandths) besides.
NoteParamInputs ==
  ParamInputs \cup {[field |-> "pitch", value |-> 220],
                    [field |-> "amplitude", value |-> 200]}

InstrumentIds == 0 .. NumInstruments
VoiceIds == 0 .. (NumVoices - 1)

\* HeldButtonNote::from_duration: (secs / sample_rate) as u64, truncating.
from_duration(ms) == ms \div (1000 * SampleRate)

\* HeldButtonInstrument::note: a fresh note seeded from next_note. id is the
\* number of the Hit event that created it (it names the note in samples).
note(instrument, id) ==
  [id |-> id,
   params |-> instrument.next_note,
   change_params |-> instrument.next_note,
   change_pending |-> FALSE,
   change_at |-> 0,
   mute_pending |-> FALSE,
   mute_at |-> NoFrame]

\* Faulty variant of set_param: the parameter takes effect at once.
note_set_param_now(n, param) ==
  [n EXCEPT !.params = Apply(n.params, param),
            !.change_params = Apply(n.change_params, param)]

\* HeldButtonNote::set_param
note_set_param(n, param) ==
  [n EXCEPT !.change_pending = TRUE,
            !.change_params = Apply(n.change_params, param)]

\* HeldButtonNote::mute
note_mute(n) == [n EXCEPT !.mute_pending = TRUE]

\* HeldButtonNote::render, the note's state after rendering relative frame
\* time (the sample value itself is named by the note's id in the mix).
note_render(n, time) ==
  LET n1 == IF n.change_pending
            THEN [n EXCEPT !.params = n.change_params,
                           !.change_at = time,
                           !.change_pending = FALSE]
            ELSE n
  IN IF n1.mute_pending
     THEN [n1 EXCEPT !.mute_at = time, !.mute_pending = FALSE]
     ELSE n1

\* Variant of finished with a release of half a second of frames.
note_finished_late(n, time) ==
  IF n.mute_at # NoFrame
  THEN n.mute_at + (SampleRate \div 2) < time
  ELSE FALSE

\* HeldButtonNote::finished
note_finished(n, time) ==
  IF n.mute_at # NoFrame
  THEN n.mute_at + from_duration(500) < time
  ELSE FALSE

\* Faulty variant of the instrument's set_param: the template is reset to the
\* defaults before the parameter is applied.
instrument_set_param_fresh(instrument, param) ==
  [instrument EXCEPT !.next_note = Apply(DefaultParams, param)]

\* HeldButtonInstrument::set_param(NextNote(p))
instrument_set_param(instrument, param) ==
  [instrument EXCEPT !.next_note = Apply(instrument.next_note, param)]

\* ------------------------------------------------------------------ state
VARIABLES
  buffer,              \* RenderQueue.buffer: the ring's samples, oldest first
  tail_frame,          \* RenderQueue.tail_frame
  last_consumed_size,  \* RenderQueue.last_consumed_size
  lock,                \* holder of the Mutex<RenderQueue>: "free", "callback"
  cb_pc,               \* audio callback: "idle", "wait", "sleeping", "consume"
  num_frames,          \* output.len() / num_channels of the current invocation
  early,               \* ts.playback - BACKOFF_SLEEP > ts.callback, fixed per invocation
  sleeps,              \* sleeps of the current invocation (saturating)
  output,              \* the invocation's output frames
  r_pc,                \* render thread: "drain", "handle", "produce", "exited"
  event,               \* the event taken from the channel, being handled
  chan,                \* the mpsc channel: events in flight, oldest first
  instruments,         \* Vec<Box<dyn Instrument>>
  voices,              \* BTreeMap<(iid, voice), (start_frame, note)>
  nsent,               \* events sent so far: the next event gets id nsent + 1
  handled,             \* ids of the events the render loop has handled, in order
  mute_calls,          \* mute() calls each note (by id) has received
  displaced,           \* ids of the notes a Hit has displaced from voices
  hnote,               \* NoteSpec: the HeldButtonNote (params, change and mute fields)
  hosc,                \* NoteSpec: its signal, change_phase and next_frame
  hclock,              \* NoteSpec: relative head and tail time, in the map, events handled
  hout,                \* NoteSpec: what the last render call returned
  ks_chord,            \* KeyspecSpec: the KeyChord handed to fmt_keyspec
  ks_text,             \* KeyspecSpec: the text it returned
  ks_parsed,           \* KeyspecSpec: the result of parse_keyspec on that text
  state_machine,       \* JamConfig.state_machine: the mode vector
  current_state,       \* JamConfig.current_state
  keyup_actions,       \* JamConfig.keyup_actions: code -> (mode, mask) of its press
  stage,               \* ConfigSpec: "load", "run" or "crashed"
  nsetup,              \* ConfigSpec: setup calls the script has made
  last_op,             \* ConfigSpec: what the last setup call or key handler did
  submission,          \* PlaySpec: JamConfigInner.submission, the events sent on it
  recv,                \* PlaySpec: whether the channel's Receiver is alive
  ncalls,              \* PlaySpec: native_play / native_mute calls so far
  last_call,           \* PlaySpec: the last of these calls
  pressed,             \* VizData.pressed: the codes held
  isent,               \* InputSpec: the events VizData sent, oldest first
  nwin,                \* InputSpec: window events handled so far
  last_win             \* InputSpec: the last window event handled

vars == <<buffer, tail_frame, last_consumed_size, lock, cb_pc, num_frames,
          early, sleeps, output, r_pc, event, chan, instruments, voices,
          nsent, handled, mute_calls, displaced,
          hnote, hosc, hclock, hout, ks_chord, ks_text, ks_parsed,
          state_machine, current_state, keyup_actions, stage, nsetup, last_op,
          submission, recv, ncalls, last_call,
          pressed, isent, nwin, last_win>>

queue_vars == <<buffer, tail_frame, last_consumed_size>>
cb_vars == <<cb_pc, num_frames, early, sleeps, output>>
render_vars == <<r_pc, event, instruments, voices, handled, mute_calls,
                 displaced>>
ui_vars == <<chan, nsent>>
pipeline_vars == <<queue_vars, lock, cb_vars, render_vars, ui_vars>>
note_vars == <<hnote, hosc, hclock, hout>>
keyspec_vars == <<ks_chord, ks_text, ks_parsed>>
\* What the steps of the audio pipeline leave alone.
config_vars == <<state_machine, current_state, keyup_actions, stage, nsetup,
                 last_op>>
play_vars == <<submission, recv, ncalls, last_call>>
input_vars == <<pressed, isent, nwin, last_win>>
side_vars == <<note_vars, keyspec_vars, config_vars, play_vars, input_vars>>

\* A frame of the output slice the callback has not written.
Stale == [frame |-> NoFrame, notes |-> {}]

NoEvent == [kind |-> "NoEvent"]

\* RenderQueue::plus_sample_time
plus_sample_time(samples_elapsed) == tail_frame + samples_elapsed

\* Faulty variant of head_time: the ring's capacity instead of its length.
head_time_capacity == plus_sample_time(MAX_BUFFER_SPECULATE_SIZE)

\* RenderQueue::head_time
head_time == plus_sample_time(Len(buffer))

\* RenderQueue::tail_time
tail_time == plus_sample_time(0)

\* dasp Bounded::max_len of the ring built in RenderQueue::new
max_len == MAX_BUFFER_SPECULATE_SIZE

\* Faulty variant of push: the sample is put at the front of the ring.
push_front(buf, sample) ==
  IF Len(buf) = max_len THEN <<sample>> \o SubSeq(buf, 1, Len(buf) - 1)
  ELSE <<sample>> \o buf

\* Faulty variant of push: the last slot of the ring is never filled.
push_short(buf, sample) ==
  IF Len(buf) >= max_len - 1 THEN buf ELSE Append(buf, sample)

\* dasp Bounded::push: a full ring overwrites its oldest element.
push(buf, sample) ==
  IF Len(buf) = max_len THEN Append(Tail(buf), sample) ELSE Append(buf, sample)

\* RenderQueue::new and the locals of setup_rendering before its loop.
PipelineInit ==
  /\ buffer = <<>>
  /\ tail_frame = 0
  /\ last_consumed_size = 0
  /\ lock = "free"
  /\ cb_pc = "idle"
  /\ num_frames = 0
  /\ early = FALSE
  /\ sleeps = 0
  /\ output = <<>>
  /\ r_pc = "drain"
  /\ event = NoEvent
  /\ chan = <<>>
  /\ instruments = [i \in 0 .. (NumInstruments - 1) |-> [next_note |-> DefaultParams]]
  /\ voices = [k \in {} |-> NoEvent]
  /\ nsent = 0
  /\ handled = <<>>
  /\ mute_calls = [i \in 1 .. (MaxEvents + 1) |-> 0]
  /\ displaced = {}

\* ----------------------------------------------------------- audio callback
\* make_stream's data callback is invoked by the driver with an output slice
\* of num_frames frames and a timestamp (output.rs:65-68).
CbInvoke ==
  /\ cb_pc = "idle"
  /\ tail_frame < MaxFrame
  /\ \E n \in 1 .. MAX_BUFFER_CONSUME_SIZE, e \in BOOLEAN :
       /\ num_frames' = n
       /\ early' = e
       /\ output' = [i \in 1 .. n |-> Stale]
  /\ sleeps' = 0
  /\ cb_pc' = "wait"
  /\ UNCHANGED <<side_vars, queue_vars, lock, render_vars, ui_vars>>

\* One pass of the wait loop that leaves it (output.rs:70-73, 77-79): the
\* guard taken at line 70 is dropped by the break.
CbWaitBreak ==
  /\ cb_pc = "wait"
  /\ lock = "free"
  /\ (Len(buffer) >= num_frames \/ ~early)
  /\ cb_pc' = "consume"
  /\ UNCHANGED <<side_vars, queue_vars, lock, num_frames, early, sleeps, output,
                 render_vars, ui_vars>>

\* The holder of the mutex while the callback is in thread::sleep: the guard
\* of line 70 lives to the end of the loop body, line 80.
sleep_lock == "callback"

\* One pass of the wait loop that sleeps (output.rs:70-76).
CbWaitSleep ==
  /\ cb_pc = "wait"
  /\ lock = "free"
  /\ Len(buffer) < num_frames
  /\ early
  /\ lock' = sleep_lock
  /\ sleeps' = IF sleeps < MaxSleeps THEN sleeps + 1 ELSE sleeps
  /\ cb_pc' = "sleeping"
  /\ UNCHANGED <<side_vars, queue_vars, num_frames, early, output, render_vars, ui_vars>>

\* thread::sleep returns; the loop body ends and drops the guard (output.rs:76-80).
CbWake ==
  /\ cb_pc = "sleeping"
  /\ lock' = "free"
  /\ cb_pc' = "wait"
  /\ UNCHANGED <<side_vars, queue_vars, num_frames, early, sleeps, output, render_vars,
                 ui_vars>>

\* Faulty variant of consume: the samples are popped but tail_frame stays.
consume_no_advance(q, out, n) ==
  IF Len(q.buffer) >= n
  THEN [buffer |-> SubSeq(q.buffer, n + 1, Len(q.buffer)),
        output |-> SubSeq(q.buffer, 1, n),
        last_consumed_size |-> n,
        tail_frame |-> q.tail_frame]
  ELSE [buffer |-> q.buffer,
        output |-> out,
        last_consumed_size |-> 0,
        tail_frame |-> q.tail_frame]

\* Faulty variant of consume: a short ring is popped as far as it goes.
consume_partial(q, out, n) ==
  LET k == IF Len(q.buffer) >= n THEN n ELSE Len(q.buffer) IN
  [buffer |-> SubSeq(q.buffer, k + 1, Len(q.buffer)),
   output |-> [i \in 1 .. Len(out) |-> IF i <= k THEN q.buffer[i] ELSE out[i]],
   last_consumed_size |-> IF Len(q.buffer) >= n THEN n ELSE 0,
   tail_frame |-> q.tail_frame + k]

\* The consume step's effect on the queue and the output slice
\* (output.rs:83-95): all num_frames frames or none.
consume(q, out, n) ==
  IF Len(q.buffer) >= n
  THEN [buffer |-> SubSeq(q.buffer, n + 1, Len(q.buffer)),
        output |-> SubSeq(q.buffer, 1, n),
        last_consumed_size |-> n,
        tail_frame |-> q.tail_frame + n]
  ELSE [buffer |-> q.buffer,
        output |-> out,
        last_consumed_size |-> 0,
        tail_frame |-> q.tail_frame]

\* The consume step (output.rs:81-96), under one lock acquisition.
CbConsume ==
  /\ cb_pc = "consume"
  /\ lock = "free"
  /\ LET r == consume([buffer |-> buffer, tail_frame |-> tail_frame],
                      output, num_frames) IN
       /\ buffer' = r.buffer
       /\ output' = r.output
       /\ last_consumed_size' = r.last_consumed_size
       /\ tail_frame' = r.tail_frame
  /\ cb_pc' = "idle"
  /\ UNCHANGED <<side_vars, lock, num_frames, early, sleeps, render_vars, ui_vars>>

\* ------------------------------------------------------------- UI thread
NoParam == [field |-> "none", value |-> 0]

\* The voices addressed on instrument i: every voice of an instrument of the
\* vector, voice 0 alone for the out-of-range id.
VoicesOf(i) == IF i < NumInstruments THEN VoiceIds ELSE {0}

\* The JamEvent values a sender may put on the channel (render.rs:68-111).
EventInputs ==
  {[kind |-> "InstSetParam", iid |-> i, voice |-> 0, param |-> p] :
      i \in InstrumentIds, p \in ParamInputs}
  \cup UNION {{[kind |-> k, iid |-> i, voice |-> v, param |-> NoParam] :
                 k \in {"Hit", "Mute"}, v \in VoicesOf(i)} : i \in InstrumentIds}
  \cup UNION {{[kind |-> "NoteSetParam", iid |-> i, voice |-> v, param |-> p] :
                 v \in VoicesOf(i), p \in ParamInputs} : i \in InstrumentIds}

\* Sender::send appends to the channel; id numbers the events in send order.
send(ch, e, id) ==
  Append(ch, [id |-> id, kind |-> e.kind, iid |-> e.iid, voice |-> e.voice,
              param |-> e.param])

\* Whether the shutdown signal has been sent: it is in flight, or the render
\* thread has received it and returned.
none_sent == r_pc = "exited" \/ \E j \in 1 .. Len(chan) : chan[j].kind = "None"

\* send(Some(event)) (input.rs:39-73, config.rs:580-620). Once the render
\* thread has returned, the receiver is gone and send enqueues nothing.
SendEvent ==
  /\ nsent - (IF none_sent THEN 1 ELSE 0) < MaxEvents
  /\ r_pc # "exited"
  /\ \E e \in EventInputs : chan' = send(chan, e, nsent + 1)
  /\ nsent' = nsent + 1
  /\ UNCHANGED <<side_vars, queue_vars, lock, cb_vars, render_vars>>

\* send(None): the shutdown signal, sent once.
SendNone ==
  /\ ~none_sent
  /\ chan' = send(chan, [kind |-> "None", iid |-> 0, voice |-> 0,
                         param |-> NoParam], nsent + 1)
  /\ nsent' = nsent + 1
  /\ UNCHANGED <<side_vars, queue_vars, lock, cb_vars, render_vars>>

\* The events EventSpec sends: for the instrument of the vector, with every
\* value of NoteParamInputs.
TemplateEvents ==
  {[kind |-> "InstSetParam", iid |-> 0, voice |-> 0, param |-> p] :
      p \in NoteParamInputs}
  \cup {[kind |-> k, iid |-> 0, voice |-> v, param |-> NoParam] :
          k \in {"Hit", "Mute"}, v \in VoiceIds}
  \cup {[kind |-> "NoteSetParam", iid |-> 0, voice |-> v, param |-> p] :
          v \in VoiceIds, p \in NoteParamInputs}

\* send(Some(event)) while no event is in flight and the render thread is
\* not handling one.
SendTemplateEvent ==
  /\ nsent < MaxEvents + 1
  /\ chan = <<>>
  /\ r_pc \in {"drain", "produce"}
  /\ \E e \in TemplateEvents : chan' = send(chan, e, nsent + 1)
  /\ nsent' = nsent + 1
  /\ UNCHANGED <<side_vars, queue_vars, lock, cb_vars, render_vars>>

\* ---------------------------------------------------------- render thread
\* Faulty variant of try_recv: the newest message is taken.
try_recv_newest(ch) == [msg |-> ch[Len(ch)], rest |-> SubSeq(ch, 1, Len(ch) - 1)]

\* One step of recv.try_iter() on a non-empty channel: the oldest message.
try_recv(ch) == [msg |-> Head(ch), rest |-> Tail(ch)]

\* try_iter yields Some(event) (render.rs:60-61).
RenderRecvEvent ==
  /\ r_pc = "drain"
  /\ chan # <<>>
  /\ try_recv(chan).msg.kind # "None"
  /\ event' = try_recv(chan).msg
  /\ chan' = try_recv(chan).rest
  /\ r_pc' = "handle"
  /\ UNCHANGED <<side_vars, queue_vars, lock, cb_vars, instruments, voices, handled,
                 mute_calls, displaced, nsent>>

\* try_iter yields None, the shutdown signal: the thread returns (render.rs:61).
RenderRecvNone ==
  /\ r_pc = "drain"
  /\ chan # <<>>
  /\ try_recv(chan).msg.kind = "None"
  /\ event' = try_recv(chan).msg
  /\ chan' = try_recv(chan).rest
  /\ r_pc' = "exited"
  /\ UNCHANGED <<side_vars, queue_vars, lock, cb_vars, instruments, voices, handled,
                 mute_calls, displaced, nsent>>

\* Faulty variant of drained: the for loop may end with messages pending.
drained_always(ch) == TRUE

\* try_iter ends the for loop when try_recv finds no message (render.rs:60).
drained(ch) == ch = <<>>

\* try_iter finds the channel empty: the for loop ends (render.rs:60, 113).
RenderRecvEmpty ==
  /\ r_pc = "drain"
  /\ drained(chan)
  /\ r_pc' = "produce"
  /\ UNCHANGED <<side_vars, queue_vars, lock, cb_vars, event, instruments, voices,
                 handled, mute_calls, displaced, ui_vars>>

\* Faulty variants of drain: nothing is popped; the oldest sample alone is.
drain_keep(buf) == buf
drain_oldest(buf) == IF buf = <<>> THEN buf ELSE Tail(buf)

\* buf.buffer.drain().all(|_| true): every queued sample is popped (render.rs:64).
drain(buf) == <<>>

\* Faulty variant of drain_tail: the discarded samples count as consumed.
drain_tail_advance(tail, len) == tail + len

\* tail_frame after the discard of render.rs:63-66, which does not touch it.
drain_tail(tail, len) == tail

\* voices.insert(key, value) (BTreeMap::insert).
insert(vs, key, value) ==
  [k \in (DOMAIN vs) \cup {key} |-> IF k = key THEN value ELSE vs[k]]

\* Faulty variant of hit: the displaced note is dropped without mute().
hit_no_mute(ev, now, st) ==
  LET key == <<ev.iid, ev.voice>>
      new == note(st.instruments[ev.iid], ev.id)
      occupied == key \in DOMAIN st.voices
  IN [instruments |-> st.instruments,
      voices |-> insert(st.voices, key, [ts |-> now, note |-> new]),
      mute_calls |-> st.mute_calls,
      displaced |-> IF occupied
                    THEN st.displaced \cup {st.voices[key].note.id}
                    ELSE st.displaced]

\* Faulty variant of hit: the note starts one frame after the insertion point.
hit_late(ev, now, st) ==
  LET key == <<ev.iid, ev.voice>>
      new == note(st.instruments[ev.iid], ev.id)
      occupied == key \in DOMAIN st.voices
      old == st.voices[key].note.id
  IN [instruments |-> st.instruments,
      voices |-> insert(st.voices, key, [ts |-> now + 1, note |-> new]),
      mute_calls |-> IF occupied
                     THEN [st.mute_calls EXCEPT ![old] = @ + 1]
                     ELSE st.mute_calls,
      displaced |-> IF occupied THEN st.displaced \cup {old} ELSE st.displaced]

\* NoteEvent::Hit (render.rs:83-91): st is the render thread's private state.
hit(ev, now, st) ==
  LET key == <<ev.iid, ev.voice>>
      new == note(st.instruments[ev.iid], ev.id)
      occupied == key \in DOMAIN st.voices
      old == st.voices[key].note.id
  IN [instruments |-> st.instruments,
      voices |-> insert(st.voices, key, [ts |-> now, note |-> new]),
      mute_calls |-> IF occupied
                     THEN [st.mute_calls EXCEPT ![old] = @ + 1]
                     ELSE st.mute_calls,
      displaced |-> IF occupied THEN st.displaced \cup {old} ELSE st.displaced]

\* Faulty variant of apply_event: an out-of-range instrument id wraps around
\* and a SetParam or Mute for a missing note creates the note.
apply_event_lenient(ev, now, st) ==
  LET iid == ev.iid % NumInstruments
      key == <<iid, ev.voice>>
      fresh == [ts |-> now, note |-> note(st.instruments[iid], ev.id)]
  IN CASE ev.kind = "InstSetParam" ->
            [st EXCEPT !.instruments[iid] = instrument_set_param(@, ev.param)]
       [] ev.kind = "Hit" -> hit([ev EXCEPT !.iid = iid], now, st)
       [] ev.kind = "NoteSetParam" ->
            IF key \in DOMAIN st.voices
            THEN [st EXCEPT !.voices[key].note = note_set_param(@, ev.param)]
            ELSE [st EXCEPT !.voices = insert(st.voices, key, fresh)]
       [] ev.kind = "Mute" ->
            IF key \in DOMAIN st.voices
            THEN [st EXCEPT !.voices[key].note = note_mute(@),
                            !.mute_calls[st.voices[key].note.id] = @ + 1]
            ELSE [st EXCEPT !.voices = insert(st.voices, key, fresh)]

\* The match on the event (render.rs:68-112).
apply_event(ev, now, st) ==
  LET key == <<ev.iid, ev.voice>> IN
  IF ev.iid \notin DOMAIN st.instruments
  THEN st
  ELSE CASE ev.kind = "InstSetParam" ->
              [st EXCEPT !.instruments[ev.iid] =
                           instrument_set_param(@, ev.param)]
         [] ev.kind = "Hit" -> hit(ev, now, st)
         [] ev.kind = "NoteSetParam" ->
              IF key \in DOMAIN st.voices
              THEN [st EXCEPT !.voices[key].note = note_set_param(@, ev.param)]
              ELSE st
         [] ev.kind = "Mute" ->
              IF key \in DOMAIN st.voices
              THEN [st EXCEPT !.voices[key].note = note_mute(@),
                              !.mute_calls[st.voices[key].note.id] = @ + 1]
              ELSE st

\* One event handled (render.rs:61-112): the ring is emptied under the lock,
\* now is head_time() of the emptied ring, then the event is matched.
RenderHandle ==
  /\ r_pc = "handle"
  /\ lock = "free"
  /\ buffer' = drain(buffer)
  /\ tail_frame' = drain_tail(tail_frame, Len(buffer))
  /\ LET st == apply_event(event, head_time',
                           [instruments |-> instruments, voices |-> voices,
                            mute_calls |-> mute_calls, displaced |-> displaced])
     IN /\ instruments' = st.instruments
        /\ voices' = st.voices
        /\ mute_calls' = st.mute_calls
        /\ displaced' = st.displaced
  /\ handled' = Append(handled, event.id)
  /\ event' = NoEvent
  /\ r_pc' = "drain"
  /\ UNCHANGED <<side_vars, last_consumed_size, lock, cb_vars, ui_vars>>

\* Faulty variant of is_full: the comparison never succeeds.
is_full_never(buf) == Len(buf) > MAX_BUFFER_SPECULATE_SIZE

\* The ring is full: continue without pushing (render.rs:118-120).
is_full(buf) == Len(buf) = max_len

\* The frame-production step on a full ring (render.rs:115-120).
RenderProduceFull ==
  /\ r_pc = "produce"
  /\ lock = "free"
  /\ is_full(buffer)
  /\ r_pc' = "drain"
  /\ UNCHANGED <<side_vars, queue_vars, lock, cb_vars, event, instruments, voices,
                 handled, mute_calls, displaced, ui_vars>>

\* voices.retain (render.rs:123-129): finished notes are removed, the others
\* rendered; mix names the notes summed into the sample.
retain(vs, now, retired) ==
  LET kept == {k \in DOMAIN vs : ~note_finished(vs[k].note, retired - vs[k].ts)}
  IN [voices |-> [k \in kept |->
                    [ts |-> vs[k].ts,
                     note |-> note_render(vs[k].note, now - vs[k].ts)]],
      mix |-> {vs[k].note.id : k \in kept}]

\* The frame-production step (render.rs:115-130): one sample pushed. A sample
\* is labelled with the frame it was rendered for and the notes mixed in it.
RenderProducePush ==
  /\ r_pc = "produce"
  /\ lock = "free"
  /\ ~is_full(buffer)
  /\ LET r == retain(voices, head_time, tail_time) IN
       /\ voices' = r.voices
       /\ buffer' = push(buffer, [frame |-> head_time, notes |-> r.mix])
  /\ r_pc' = "drain"
  /\ UNCHANGED <<side_vars, tail_frame, last_consumed_size, lock, cb_vars, event,
                 instruments, handled, mute_calls, displaced, ui_vars>>

\* ------------------------------------------------- the HeldButton note alone
\* One HeldButtonNote as setup_rendering drives it: the note is created by a
\* Hit at relative frame 0, every event handled discards the ring (the next
\* render is at the relative tail time), every push renders the relative
\* head time, and the audio callback advances the relative tail time.
\* Levels (amplitude, oscillator sample, envelope) are in thousandths; a
\* phase is in units of 1/SampleRate of a cycle.

\* HeldButtonNote::to_fsecs: multiplies the frame count by the sample rate.
to_fsecs(duration) == duration * SampleRate

\* The SignalMaker closure (instrument.rs:83 declares its type): the signal
\* continues from the phase the old parameters reach at new_time and advances
\* at the new pitch; it also returns that phase.
signal_maker(old_params, old_time, phase, new_params, new_time) ==
  LET ph == (phase + (new_time - old_time) * old_params.pitch) % SampleRate
  IN [signal |-> [phase |-> ph, pitch |-> new_params.pitch], phase |-> ph]

\* Signal::next of the boxed oscillator: a sample in [-1, 1] that depends on
\* the phase only, and the signal advanced by one frame.
signal_next(signal) ==
  [sample |-> IF signal.phase = 0 \/ 2 * signal.phase = SampleRate THEN 0
              ELSE IF 2 * signal.phase < SampleRate THEN 1000 ELSE -1000,
   signal |-> [signal EXCEPT !.phase = (@ + signal.pitch) % SampleRate]]

\* HeldButtonInstrument::note, the oscillator fields of the new note.
note_osc(instrument) ==
  LET m == signal_maker(instrument.next_note, 0, 0, instrument.next_note, 0)
  IN [signal |-> m.signal, change_phase |-> m.phase, next_frame |-> 0]

\* HeldButtonNote::render, the oscillator fields: the change_pending branch
\* (lines 137-143), the next_frame test (149-154) and signal.next() (156).
\* n is the note before the call, nr the note after it.
osc_render(n, o, time) ==
  LET nr == note_render(n, time)
      c == signal_maker(n.params, n.change_at, o.change_phase,
                        n.change_params, time)
      o1 == IF n.change_pending
            THEN [signal |-> c.signal, change_phase |-> c.phase,
                  next_frame |-> time]
            ELSE o
      j == signal_maker(nr.params, nr.change_at, o1.change_phase,
                        nr.params, time)
      o2 == IF o1.next_frame = time
            THEN [o1 EXCEPT !.next_frame = time + 1]
            ELSE [signal |-> j.signal, change_phase |-> j.phase,
                  next_frame |-> time + 1]
      nx == signal_next(o2.signal)
  IN [osc |-> [o2 EXCEPT !.signal = nx.signal],
      phase |-> o2.signal.phase,
      amp |-> nx.sample]

\* HeldButtonNote::render, the envelope factor (lines 157-175) of the note
\* after the mute_pending branch, in thousandths: dividing by 0.5 s is
\* multiplying by 2, dividing by 0.05 s is multiplying by 20, and the final
\* "* 0.5" halves.
adsr(n, time) ==
  IF n.mute_at # NoFrame /\ time >= n.mute_at
  THEN (1000 - 2000 * to_fsecs(time - n.mute_at)) \div 2
  ELSE IF time < from_duration(50)
  THEN 20000 * to_fsecs(time)
  ELSE IF time < from_duration(100)
  THEN (1000 - 20000 * to_fsecs(time - from_duration(50))) \div 2 + 500
  ELSE 500

\* HeldButtonNote::render: the note after the call and the sample returned,
\* amp * adsr (line 176); the oscillator sample is a whole level (-1, 0, 1).
render(n, o, time) ==
  LET nr == note_render(n, time)
      r == osc_render(n, o, time)
      a == adsr(nr, time)
  IN [note |-> nr, osc |-> r.osc,
      out |-> [time |-> time, phase |-> r.phase, amp |-> r.amp,
               adsr |-> a, value |-> (r.amp \div 1000) * a]]

NoRender == [time |-> NoFrame, phase |-> 0, amp |-> 0, adsr |-> 0, value |-> 0]

\* The note right after the Hit that created it (render.rs:83-91).
NoteInit ==
  /\ hnote = note([next_note |-> DefaultParams], 1)
  /\ hosc = note_osc([next_note |-> DefaultParams])
  /\ hclock = [now |-> 0, retired |-> 0, live |-> TRUE, events |-> 0]
  /\ hout = NoRender

\* render.rs:92-99 after the discard of lines 62-67: NoteEvent::SetParam.
NoteEventSetParam ==
  /\ hclock.live
  /\ \E p \in NoteParamInputs : hnote' = note_set_param(hnote, p)
  /\ hclock.events < MaxNoteEvents
  /\ hclock' = [hclock EXCEPT !.now = hclock.retired, !.events = @ + 1]
  /\ UNCHANGED <<pipeline_vars, input_vars, play_vars, keyspec_vars, config_vars, hosc, hout>>

\* render.rs:100-107 after the discard: NoteEvent::Mute.
NoteEventMute ==
  /\ hclock.live
  /\ hnote' = note_mute(hnote)
  /\ hclock.events < MaxNoteEvents
  /\ hclock' = [hclock EXCEPT !.now = hclock.retired, !.events = @ + 1]
  /\ UNCHANGED <<pipeline_vars, input_vars, play_vars, keyspec_vars, config_vars, hosc, hout>>

\* render.rs:62-67 for an event that is not for this note: the discard only.
NoteEventOther ==
  /\ hclock.live
  /\ hclock.now > hclock.retired
  /\ hclock.events < MaxNoteEvents
  /\ hclock' = [hclock EXCEPT !.now = hclock.retired, !.events = @ + 1]
  /\ UNCHANGED <<pipeline_vars, input_vars, play_vars, keyspec_vars, config_vars, hnote, hosc, hout>>

\* render.rs:115-130 when finished(retired - ts) is false: the note is kept
\* and rendered at now - ts.
NoteRendered ==
  /\ hclock.live
  /\ hclock.now < MaxTime
  /\ hclock.now - hclock.retired < MAX_BUFFER_SPECULATE_SIZE
  /\ ~note_finished(hnote, hclock.retired)
  /\ LET r == render(hnote, hosc, hclock.now)
     IN /\ hnote' = r.note
        /\ hosc' = r.osc
        /\ hout' = r.out
  /\ hclock' = [hclock EXCEPT !.now = @ + 1]
  /\ UNCHANGED <<pipeline_vars, input_vars, play_vars, keyspec_vars, config_vars>>

\* render.rs:115-130 when finished(retired - ts) is true: retain drops the note.
NoteDropped ==
  /\ hclock.live
  /\ hclock.now - hclock.retired < MAX_BUFFER_SPECULATE_SIZE
  /\ note_finished(hnote, hclock.retired)
  /\ hclock' = [hclock EXCEPT !.live = FALSE]
  /\ UNCHANGED <<pipeline_vars, input_vars, play_vars, keyspec_vars, config_vars, hnote, hosc, hout>>

\* output.rs:81-95: the callback pops n rendered frames, the tail advances.
NoteConsume ==
  /\ hclock.live
  /\ \E n \in 1 .. MAX_BUFFER_CONSUME_SIZE :
       /\ hclock.retired + n <= hclock.now
       /\ hclock' = [hclock EXCEPT !.retired = @ + n]
  /\ UNCHANGED <<pipeline_vars, input_vars, play_vars, keyspec_vars, config_vars, hnote, hosc, hout>>

NoteNext ==
  \/ NoteEventSetParam
  \/ NoteEventMute
  \/ NoteEventOther
  \/ NoteRendered
  \/ NoteDropped
  \/ NoteConsume

\* ---------------------------------------------------------------- keyspecs
\* A KeyChord is <<code, mods>>: a KeyCode name and a set of modifier flags.
\* A text is a sequence of characters, each a one-character string; the
\* grave accent (the token of Backquote) is written "GRAVE".
Modifiers == {"CTRL", "SHIFT", "ALT", "SUPER"}

\* The key tokens of parse_keyspec_code and fmt_keyspec, by KeyCode.
KeyTokens ==
  [Escape |-> <<"<", "E", "S", "C", ">">>,
   KeyA |-> <<"a">>, KeyB |-> <<"b">>, KeyC |-> <<"c">>, KeyD |-> <<"d">>,
   KeyE |-> <<"e">>, KeyF |-> <<"f">>, KeyG |-> <<"g">>, KeyH |-> <<"h">>,
   KeyI |-> <<"i">>, KeyJ |-> <<"j">>, KeyK |-> <<"k">>, KeyL |-> <<"l">>,
   KeyM |-> <<"m">>, KeyN |-> <<"n">>, KeyO |-> <<"o">>, KeyP |-> <<"p">>,
   KeyQ |-> <<"q">>, KeyR |-> <<"r">>, KeyS |-> <<"s">>, KeyT |-> <<"t">>,
   KeyU |-> <<"u">>, KeyV |-> <<"v">>, KeyW |-> <<"w">>, KeyX |-> <<"x">>,
   KeyY |-> <<"y">>, KeyZ |-> <<"z">>,
   Digit0 |-> <<"0">>, Digit1 |-> <<"1">>, Digit2 |-> <<"2">>,
   Digit3 |-> <<"3">>, Digit4 |-> <<"4">>, Digit5 |-> <<"5">>,
   Digit6 |-> <<"6">>, Digit7 |-> <<"7">>, Digit8 |-> <<"8">>,
   Digit9 |-> <<"9">>,
   Backquote |-> <<"GRAVE">>,
   Minus |-> <<"<", "D", "A", "S", "H", ">">>,
   Equal |-> <<"=">>,
   BracketLeft |-> <<"{">>,
   BracketRight |-> <<"}">>,
   Backslash |-> <<"\\">>]

\* The key codes with a token, and one of the many without (fmt_keyspec's
\* "_" arm).
KnownKeys == DOMAIN KeyTokens
KeyCodes == KnownKeys \cup {"Tab"}

\* str::split(sep): the pieces between the separators, in order; n
\* separators give n + 1 pieces, empty ones included.
RECURSIVE split(_, _)
split(text, sep) ==
  IF \A i \in 1 .. Len(text) : text[i] # sep
  THEN <<text>>
  ELSE LET i == CHOOSE i \in 1 .. Len(text) :
                  /\ text[i] = sep
                  /\ \A j \in 1 .. (i - 1) : text[j] # sep
       IN <<SubSeq(text, 1, i - 1)>> \o split(SubSeq(text, i + 1, Len(text)), sep)

\* [&str]::join(sep)
RECURSIVE join(_, _)
join(pieces, sep) ==
  IF Len(pieces) = 0 THEN <<>>
  ELSE IF Len(pieces) = 1 THEN pieces[1]
  ELSE pieces[1] \o <<sep>> \o join(Tail(pieces), sep)

\* Iterator::rev
rev(seq) == [i \in 1 .. Len(seq) |-> seq[Len(seq) + 1 - i]]

ParseOk(chord) == [ok |-> TRUE, chord |-> chord, err |-> "", text |-> <<>>]
ParseErr(err, text) == [ok |-> FALSE, chord |-> <<>>, err |-> err, text |-> text]

\* parse_keyspec_code
parse_keyspec_code(text) ==
  IF \E k \in KnownKeys : KeyTokens[k] = text
  THEN ParseOk(<<CHOOSE k \in KnownKeys : KeyTokens[k] = text, {}>>)
  ELSE ParseErr("BadKey", text)

\* parse_keyspec_mods
parse_keyspec_mods(text) ==
  CASE text = <<"C">> -> [ok |-> TRUE, mods |-> {"CTRL"}]
    [] text = <<"S">> -> [ok |-> TRUE, mods |-> {"SHIFT"}]
    [] text = <<"A">> -> [ok |-> TRUE, mods |-> {"ALT"}]
    [] text = <<"W">> -> [ok |-> TRUE, mods |-> {"SUPER"}]
    [] OTHER -> [ok |-> FALSE, mods |-> {}]

\* Faulty variant of parse_pieces: a piece that is no modifier is skipped.
RECURSIVE parse_pieces_skip(_, _, _)
parse_pieces_skip(code, mods, pieces) ==
  IF Len(pieces) = 0 THEN ParseOk(<<code, mods>>)
  ELSE parse_pieces_skip(code, mods \cup parse_keyspec_mods(Head(pieces)).mods,
                         Tail(pieces))

\* The for loop of parse_keyspec: the pieces left of the key token, in the
\* order the reversed iterator yields them; the first bad one is the error.
RECURSIVE parse_pieces(_, _, _)
parse_pieces(code, mods, pieces) ==
  IF Len(pieces) = 0 THEN ParseOk(<<code, mods>>)
  ELSE LET m == parse_keyspec_mods(Head(pieces))
       IN IF m.ok
          THEN parse_pieces(code, mods \cup m.mods, Tail(pieces))
          ELSE ParseErr("BadModifier", Head(pieces))

\* Faulty variant of parse_keyspec: the pieces are not reversed, so the first
\* piece is taken for the key token.
parse_keyspec_forward(text) ==
  IF Len(text) = 0 THEN ParseErr("Empty", <<>>)
  ELSE IF Len(text) = 1 THEN parse_keyspec_code(text)
  ELSE LET iter == split(text, "-")
           key == parse_keyspec_code(Head(iter))
       IN IF key.ok
          THEN parse_pieces(key.chord[1], key.chord[2], Tail(iter))
          ELSE key

\* parse_keyspec
parse_keyspec(text) ==
  IF Len(text) = 0 THEN ParseErr("Empty", <<>>)
  ELSE IF Len(text) = 1 THEN parse_keyspec_code(text)
  ELSE LET iter == rev(split(text, "-"))
           key == parse_keyspec_code(Head(iter))
       IN IF key.ok
          THEN parse_pieces(key.chord[1], key.chord[2], Tail(iter))
          ELSE key

\* fmt_keyspec
fmt_keyspec(keyspec) ==
  LET pieces ==
        (IF "CTRL" \in keyspec[2] THEN <<(<<"C">>)>> ELSE <<>>)
        \o (IF "SHIFT" \in keyspec[2] THEN <<(<<"S">>)>> ELSE <<>>)
        \o (IF "ALT" \in keyspec[2] THEN <<(<<"A">>)>> ELSE <<>>)
        \o (IF "SUPER" \in keyspec[2] THEN <<(<<"W">>)>> ELSE <<>>)
        \o <<(IF keyspec[1] \in KnownKeys THEN KeyTokens[keyspec[1]]
              ELSE <<"<", "U", "N", "K", ">">>)>>
  IN join(pieces, "-")

NoChord == <<"", {}>>
NoText == <<"?">>
NoResult == [ok |-> FALSE, chord |-> <<>>, err |-> "none", text |-> <<>>]

KeyspecRest ==
  /\ ks_chord = NoChord
  /\ ks_text = NoText
  /\ ks_parsed = NoResult

\* The chord IntoLua for KeyChord is handed (config.rs:123-127).
KeyspecInit ==
  /\ ks_chord \in KeyCodes \X (SUBSET Modifiers)
  /\ ks_text = NoText
  /\ ks_parsed = NoResult

\* IntoLua for KeyChord: the chord is formatted.
KeyspecFormat ==
  /\ ks_text = NoText
  /\ ks_text' = fmt_keyspec(ks_chord)
  /\ UNCHANGED <<pipeline_vars, input_vars, play_vars, note_vars, config_vars, ks_chord, ks_parsed>>

\* FromLua for KeyChord: the text is parsed (config.rs:108-121).
KeyspecParse ==
  /\ ks_text # NoText
  /\ ks_parsed = NoResult
  /\ ks_parsed' = parse_keyspec(ks_text)
  /\ UNCHANGED <<pipeline_vars, input_vars, play_vars, note_vars, config_vars, ks_chord, ks_text>>

\* The pieces of the chord texts a script passes to bind, bindUp and unbind:
\* key tokens, modifier letters, the empty piece, a name that is no token.
PieceInputs ==
  {<<>>, <<"a">>, <<"C">>, <<"S">>, <<"W">>, <<"F", "1">>,
   <<"<", "D", "A", "S", "H", ">">>}

\* Every text is the join of its hyphen-free pieces; zero pieces stand for
\* the empty text.
ScriptTexts ==
  {join(ps, "-") : ps \in UNION {[1 .. n -> PieceInputs] : n \in 0 .. MaxPieces}}

\* FromLua for KeyChord on a string of the script (config.rs:108-121): the
\* text does not come from fmt_keyspec.
KeyspecScript ==
  /\ ks_text = NoText
  /\ ks_text' \in ScriptTexts
  /\ ks_chord' = NoChord
  /\ UNCHANGED <<pipeline_vars, input_vars, play_vars, note_vars, config_vars, ks_parsed>>

KeyspecNext == KeyspecFormat \/ KeyspecScript \/ KeyspecParse

\* ------------------------------------------------- key dispatch (config.rs)
\* JamConfig as the Lua configuration script and the key handlers drive it.
\* The script runs inside JamConfig::new (stage "load"), where it calls the
\* setup API; JamConfigLua::on_keypress / on_keyup exist only once new has
\* returned (stage "run"). A panic ends the program (stage "crashed").
\* Mode indices are 0-based as in the code: mode i is state_machine[i + 1].

\* config.rs:49-77, most specific mask first.
ORDERED_MODIFIERS ==
  << {"CTRL", "SHIFT", "ALT", "SUPER"},
     {"SHIFT", "ALT", "SUPER"},
     {"CTRL", "ALT", "SUPER"},
     {"CTRL", "SHIFT", "SUPER"},
     {"CTRL", "SHIFT", "ALT"},
     {"ALT", "SUPER"},
     {"SHIFT", "SUPER"},
     {"SHIFT", "ALT"},
     {"CTRL", "SUPER"},
     {"CTRL", "ALT"},
     {"CTRL", "SHIFT"},
     {"SUPER"},
     {"ALT"},
     {"SHIFT"},
     {"CTRL"},
     {} >>

\* KeyCallback values. A Lua function converted by FromLua for KeyCallback
\* is told apart by its slot in native.__acct; mkPlay returns a native
\* closure (mkMute another, kind "mute"); JamConfig::new gives mode Normal a
\* closure that does nothing.
NoCallback == [kind |-> "none", id |-> 0]
Noop == [kind |-> "noop", id |-> 0]
LuaCallbacks == {[kind |-> "lua", id |-> i] : i \in 1 .. NumLuaFuncs}
NativeCallbacks == {[kind |-> "play", id |-> 0]}
Callbacks == LuaCallbacks \cup NativeCallbacks

\* What the script passes: the chords it binds, the keys and modifiers the
\* user presses, the mode bound in, the mode numbers given as next or as a
\* default target (MaxModes is never a mode).
BindChords ==
  {<<"KeyA", {"CTRL"}>>, <<"KeyA", {"CTRL", "SHIFT"}>>, <<"KeyA", {"SHIFT"}>>}
DispatchKeys == {"KeyA"}
PressMods == SUBSET {"CTRL", "SHIFT"}
BindModes == 0 .. (MaxModes - 1)
ModeArgs == 0 .. MaxModes
NoMode == -1
\* The arguments mkPlay and mkMute were given: instrument 0, pitch 440, no voice.
NoVoice == -1
NoPitch == -1
PlayArgs == [instrument |-> 0, pitch |-> 440, voice |-> NoVoice]

\* The native functions a Lua function may call while it runs.
SetupApi == {"mkMode", "bind", "bindUp", "unbind"}
CallbackApi == {"play", "mute"}
LuaCalls == {"none"} \cup SetupApi \cup CallbackApi

\* RefCell: a cell is "free", "shared" or "mut".
borrow(cell) == IF cell = "mut" THEN "panic" ELSE "ok"
borrow_mut(cell) == IF cell = "free" THEN "ok" ELSE "panic"
try_borrow_mut(cell) == IF cell = "free" THEN "ok" ELSE "error"

\* The borrows held while a key effect runs: on_keypress / on_keyup hold
\* self.inner.borrow() on the RefCell<JamConfig> (outer), keymap_action and
\* keymap_release_action hold self.inner.borrow_mut() on the
\* RefCell<JamConfigInner> (inner) as the effect's first argument.
EffectCells == [outer |-> "shared", inner |-> "mut"]

\* make_native_func_setup: how the wrapper gets its &mut JamConfig.
make_native_func_setup(cells) == borrow_mut(cells.outer)

\* make_native_func_callback: how the wrapper gets its &mut JamConfigInner.
make_native_func_callback(cells) ==
  IF borrow(cells.outer) = "panic" THEN "panic" ELSE try_borrow_mut(cells.inner)

Done(result, sent) == [result |-> result, sent |-> sent]

\* Faulty variant of native_play: the Hit is sent before the SetParam.
native_play_hit_first(args, connected) ==
  LET voice == IF args.voice = NoVoice THEN 0 ELSE args.voice
      set == [kind |-> "InstSetParam", iid |-> args.instrument, voice |-> 0,
              param |-> [field |-> "pitch", value |-> args.pitch]]
      hit_ev == [kind |-> "Hit", iid |-> args.instrument, voice |-> voice,
                 param |-> NoParam]
  IN IF ~connected THEN [result |-> "panic", sent |-> <<>>]
     ELSE IF args.pitch # NoPitch THEN [result |-> "ok", sent |-> <<hit_ev, set>>]
     ELSE [result |-> "ok", sent |-> <<hit_ev>>]

\* JamConfigInner::native_play: SetParam(NextNote(Pitch)) if a pitch is
\* given, then Hit; send(..).unwrap() panics when the receiver is gone.
native_play(args, connected) ==
  LET voice == IF args.voice = NoVoice THEN 0 ELSE args.voice
      set == [kind |-> "InstSetParam", iid |-> args.instrument, voice |-> 0,
              param |-> [field |-> "pitch", value |-> args.pitch]]
      hit_ev == [kind |-> "Hit", iid |-> args.instrument, voice |-> voice,
                 param |-> NoParam]
  IN IF ~connected THEN Done("panic", <<>>)
     ELSE IF args.pitch # NoPitch THEN Done("ok", <<set, hit_ev>>)
     ELSE Done("ok", <<hit_ev>>)

\* JamConfigInner::native_mute
native_mute(args, connected) ==
  LET voice == IF args.voice = NoVoice THEN 0 ELSE args.voice
  IN IF ~connected THEN Done("panic", <<>>)
     ELSE Done("ok", << [kind |-> "Mute", iid |-> args.instrument,
                         voice |-> voice, param |-> NoParam] >>)

\* A Lua function that calls one native function, run while a key effect is
\* active: the wrapper of that function decides whether it runs at all. A
\* setup function whose wrapper passed would be outside any effect.
lua_call(api, cells, connected) ==
  CASE api = "none" -> Done("ok", <<>>)
    [] api \in SetupApi -> Done(make_native_func_setup(cells), <<>>)
    [] api = "play" ->
         IF make_native_func_callback(cells) = "ok"
         THEN native_play(PlayArgs, connected)
         ELSE Done(make_native_func_callback(cells), <<>>)
    [] api = "mute" ->
         IF make_native_func_callback(cells) = "ok"
         THEN native_mute(PlayArgs, connected)
         ELSE Done(make_native_func_callback(cells), <<>>)

\* (callback.0)(&mut inner, lua, chord): the closures of native_make_play,
\* native_make_mute (they use the &mut JamConfigInner they are handed), of
\* JamConfig::new, and of FromLua for KeyCallback (it calls the Lua function).
run_callback(cb, api, cells, connected) ==
  CASE cb.kind = "noop" -> Done("ok", <<>>)
    [] cb.kind = "play" -> native_play(PlayArgs, connected)
    [] cb.kind = "mute" -> native_mute(PlayArgs, connected)
    [] cb.kind = "lua" -> lua_call(api, cells, connected)

\* What a Lua function may do when it is called; a native closure has no choice.
CallsOf(cb) == IF cb.kind = "lua" THEN LuaCalls ELSE {"none"}

NoKeys == [c \in {} |-> NoCallback]
Action(effect, effect_up, state) ==
  [effect |-> effect, effect_up |-> effect_up, state |-> state]

valid_mode(sm, i) == i >= 0 /\ i < Len(sm)

\* Faulty variants: an insert that keeps the value of a key already there, a
\* remove that removes nothing.
map_insert_keep(m, k, v) ==
  [x \in DOMAIN m \cup {k} |-> IF x \in DOMAIN m THEN m[x] ELSE v]
map_remove_never(m, k) == m

\* HashMap::insert / HashMap::remove
map_insert(m, k, v) == [x \in DOMAIN m \cup {k} |-> IF x = k THEN v ELSE m[x]]
map_remove(m, k) == [x \in DOMAIN m \ {k} |-> m[x]]

NoLog ==
  [op |-> "none", key |-> NoChord, state_num |-> NoMode, effect |-> NoCallback,
   chord |-> NoChord, api |-> "none", result |-> "ok", sent |-> <<>>,
   returned |-> NoCallback, next |-> NoMode, dropped |-> NoCallback]

\* JamConfig::new before the script runs.
ConfigInit ==
  /\ state_machine = << [keys |-> NoKeys, default |-> Action(Noop, NoCallback, 0)] >>
  /\ current_state = 0
  /\ keyup_actions = [c \in {} |-> NoMode]
  /\ stage = "load"
  /\ nsetup = 0
  /\ last_op = NoLog

\* ---- the setup API, called by the script while JamConfig::new loads it

\* JamConfig::native_make_mode
native_make_mode(sm, default_target, default_action) ==
  Append(sm, [keys |-> NoKeys,
              default |-> Action(default_action, NoCallback, default_target)])

MkMode ==
  /\ stage = "load"
  /\ nsetup < MaxSetup
  /\ Len(state_machine) < MaxModes
  /\ \E default_target \in ModeArgs, default_action \in Callbacks :
       state_machine' = native_make_mode(state_machine, default_target,
                                         default_action)
  /\ nsetup' = nsetup + 1
  /\ last_op' = [NoLog EXCEPT !.op = "mkMode"]
  /\ UNCHANGED <<pipeline_vars, input_vars, play_vars, note_vars, keyspec_vars, current_state,
                 keyup_actions, stage>>

\* Faulty variant of native_bind: the release handler of a binding that is
\* replaced is carried over to the new binding.
native_bind_keep_up(sm, mode, key, action, next) ==
  LET nxt == IF next = NoMode THEN mode ELSE next
      keys == sm[mode + 1].keys
      up == IF key \in DOMAIN keys THEN keys[key].effect_up ELSE NoCallback
  IN [sm |-> [sm EXCEPT ![mode + 1].keys =
                map_insert(keys, key, Action(action, up, nxt))],
      returned |-> IF key \in DOMAIN keys THEN keys[key].effect ELSE NoCallback,
      dropped |-> up]

\* JamConfig::native_bind on a mode that exists: the new state machine, the
\* effect bound there before, if any (what insert returns, mapped to the
\* effect), and the release handler that goes with the replaced binding.
native_bind(sm, mode, key, action, next) ==
  LET nxt == IF next = NoMode THEN mode ELSE next
      keys == sm[mode + 1].keys
  IN [sm |-> [sm EXCEPT ![mode + 1].keys =
                map_insert(keys, key, Action(action, NoCallback, nxt))],
      returned |-> IF key \in DOMAIN keys THEN keys[key].effect ELSE NoCallback,
      dropped |-> IF key \in DOMAIN keys THEN keys[key].effect_up
                  ELSE NoCallback]

Bind ==
  /\ stage = "load"
  /\ nsetup < MaxSetup
  /\ \E mode \in BindModes, key \in BindChords, action \in Callbacks,
        next \in {NoMode} \cup ModeArgs :
       IF valid_mode(state_machine, mode)
       THEN LET r == native_bind(state_machine, mode, key, action, next)
            IN /\ state_machine' = r.sm
               /\ last_op' = [NoLog EXCEPT !.op = "bind", !.state_num = mode,
                                           !.chord = key, !.effect = action,
                                           !.next = next,
                                           !.returned = r.returned,
                                           !.dropped = r.dropped]
               /\ stage' = stage
       ELSE /\ last_op' = [NoLog EXCEPT !.op = "bind", !.result = "panic"]
            /\ stage' = "crashed"
            /\ UNCHANGED state_machine
  /\ nsetup' = nsetup + 1
  /\ UNCHANGED <<pipeline_vars, input_vars, play_vars, note_vars, keyspec_vars, current_state,
                 keyup_actions>>

\* JamConfig::native_bind_up on a mode that exists and a chord that is bound.
native_bind_up(sm, mode, key, action) ==
  [sm |-> [sm EXCEPT ![mode + 1].keys[key].effect_up = action],
   returned |-> sm[mode + 1].keys[key].effect_up]

BindUp ==
  /\ stage = "load"
  /\ nsetup < MaxSetup
  /\ \E mode \in BindModes, key \in BindChords, action \in Callbacks :
       IF valid_mode(state_machine, mode)
          /\ key \in DOMAIN state_machine[mode + 1].keys
       THEN LET r == native_bind_up(state_machine, mode, key, action)
            IN /\ state_machine' = r.sm
               /\ last_op' = [NoLog EXCEPT !.op = "bindUp", !.state_num = mode,
                                           !.chord = key, !.effect = action,
                                           !.returned = r.returned]
               /\ stage' = stage
       ELSE /\ last_op' = [NoLog EXCEPT !.op = "bindUp", !.result = "panic"]
            /\ stage' = "crashed"
            /\ UNCHANGED state_machine
  /\ nsetup' = nsetup + 1
  /\ UNCHANGED <<pipeline_vars, input_vars, play_vars, note_vars, keyspec_vars, current_state,
                 keyup_actions>>

\* Faulty variant of native_unbind: every binding of the mode is removed.
native_unbind_all(sm, mode, key) ==
  LET keys == sm[mode + 1].keys
  IN [sm |-> [sm EXCEPT ![mode + 1].keys = [c \in {} |-> keys[c]]],
      returned |-> IF key \in DOMAIN keys THEN keys[key].effect ELSE NoCallback]

\* JamConfig::native_unbind on a mode that exists.
native_unbind(sm, mode, key) ==
  LET keys == sm[mode + 1].keys
  IN [sm |-> [sm EXCEPT ![mode + 1].keys = map_remove(keys, key)],
      returned |-> IF key \in DOMAIN keys THEN keys[key].effect ELSE NoCallback]

Unbind ==
  /\ stage = "load"
  /\ nsetup < MaxSetup
  /\ \E mode \in BindModes, key \in BindChords :
       IF valid_mode(state_machine, mode)
       THEN LET r == native_unbind(state_machine, mode, key)
            IN /\ state_machine' = r.sm
               /\ last_op' = [NoLog EXCEPT !.op = "unbind", !.state_num = mode,
                                           !.chord = key,
                                           !.returned = r.returned]
               /\ stage' = stage
       ELSE /\ last_op' = [NoLog EXCEPT !.op = "unbind", !.result = "panic"]
            /\ stage' = "crashed"
            /\ UNCHANGED state_machine
  /\ nsetup' = nsetup + 1
  /\ UNCHANGED <<pipeline_vars, input_vars, play_vars, note_vars, keyspec_vars, current_state,
                 keyup_actions>>

\* JamConfig::new returns and JamConfigLua::setup installs the event channel.
FinishLoad ==
  /\ stage = "load"
  /\ stage' = "run"
  /\ last_op' = NoLog
  /\ UNCHANGED <<pipeline_vars, input_vars, play_vars, note_vars, keyspec_vars, state_machine,
                 current_state, keyup_actions, nsetup>>

\* ---- the key handlers

\* Faulty variant of the precedence walk: the least specific bound mask wins.
first_match_last(keys, key) ==
  LET hits == {i \in 1 .. Len(ORDERED_MODIFIERS) :
                 /\ ORDERED_MODIFIERS[i] \subseteq key[2]
                 /\ <<key[1], ORDERED_MODIFIERS[i]>> \in DOMAIN keys}
  IN IF hits = {} THEN 0
     ELSE CHOOSE i \in hits : \A j \in hits : j <= i

\* The for loop of keymap_action: the index of the first mask of
\* ORDERED_MODIFIERS that the pressed modifiers contain and that is bound for
\* the key; 0 if there is none.
first_match(keys, key) ==
  LET hits == {i \in 1 .. Len(ORDERED_MODIFIERS) :
                 /\ ORDERED_MODIFIERS[i] \subseteq key[2]
                 /\ <<key[1], ORDERED_MODIFIERS[i]>> \in DOMAIN keys}
  IN IF hits = {} THEN 0
     ELSE CHOOSE i \in hits : \A j \in hits : i <= j

\* Faulty variant of keymap_action: a matched effect is handed the chord as
\* pressed, not the chord of its binding.
keymap_action_pressed(sm, state_num, key) ==
  LET state == sm[state_num + 1]
      i == first_match(state.keys, key)
      chord == <<key[1], ORDERED_MODIFIERS[i]>>
  IN IF i # 0
     THEN [action |-> state.keys[chord], chord |-> key]
     ELSE [action |-> state.default, chord |-> key]

\* JamConfig::keymap_action once the mode lookup succeeded: the action that
\* fires and the chord its effect is handed.
keymap_action(sm, state_num, key) ==
  LET state == sm[state_num + 1]
      i == first_match(state.keys, key)
      chord == <<key[1], ORDERED_MODIFIERS[i]>>
  IN IF i # 0
     THEN [action |-> state.keys[chord], chord |-> chord]
     ELSE [action |-> state.default, chord |-> key]

\* JamConfigLua::on_keypress
KeyPress ==
  /\ stage = "run"
  /\ \E code \in DispatchKeys, mods \in PressMods :
       LET key == <<code, mods>>
           state_num == current_state
       IN IF ~valid_mode(state_machine, state_num)
          THEN /\ stage' = "crashed"
               /\ last_op' = [NoLog EXCEPT !.op = "press", !.key = key,
                                           !.state_num = state_num,
                                           !.result = "panic"]
               /\ UNCHANGED <<current_state, keyup_actions>>
          ELSE LET m == keymap_action(state_machine, state_num, key)
               IN \E api \in CallsOf(m.action.effect) :
                    LET r == run_callback(m.action.effect, api, EffectCells, TRUE)
                    IN /\ current_state' = m.action.state
                       /\ keyup_actions' =
                            map_insert(keyup_actions, code,
                                       [state |-> state_num, mods |-> m.chord[2]])
                       /\ stage' = IF r.result = "panic" THEN "crashed" ELSE stage
                       /\ last_op' = [op |-> "press", key |-> key,
                                      state_num |-> state_num,
                                      effect |-> m.action.effect,
                                      chord |-> m.chord, api |-> api,
                                      result |-> r.result, sent |-> r.sent,
                                      returned |-> NoCallback,
                                      next |-> NoMode,
                                      dropped |-> NoCallback]
  /\ UNCHANGED <<pipeline_vars, input_vars, play_vars, note_vars, keyspec_vars, state_machine, nsetup>>

\* Faulty variant of the release lookup: the mode that is current at the
\* release instead of the mode recorded at the press.
release_action_current(sm, cur, rec, key) ==
  LET state == IF valid_mode(sm, cur) THEN sm[cur + 1] ELSE sm[rec.state + 1]
      chord == <<key, rec.mods>>
  IN [action |-> IF chord \in DOMAIN state.keys THEN state.keys[chord]
                 ELSE state.default,
      chord |-> chord]

\* JamConfig::keymap_release_action once the record was found and the mode
\* lookup succeeded: the action whose effect_up is looked at, and the chord.
release_action(sm, cur, rec, key) ==
  LET state == sm[rec.state + 1]
      chord == <<key, rec.mods>>
  IN [action |-> IF chord \in DOMAIN state.keys THEN state.keys[chord]
                 ELSE state.default,
      chord |-> chord]

\* JamConfigLua::on_keyup
KeyRelease ==
  /\ stage = "run"
  /\ \E key \in DispatchKeys :
       IF key \notin DOMAIN keyup_actions
       THEN /\ last_op' = [NoLog EXCEPT !.op = "release", !.key = <<key, {}>>]
            /\ UNCHANGED <<keyup_actions, stage>>
       ELSE LET rec == keyup_actions[key]
            IN /\ keyup_actions' = map_remove(keyup_actions, key)
               /\ IF ~valid_mode(state_machine, rec.state)
                  THEN /\ stage' = "crashed"
                       /\ last_op' = [NoLog EXCEPT !.op = "release",
                                                   !.key = <<key, {}>>,
                                                   !.state_num = rec.state,
                                                   !.result = "panic"]
                  ELSE LET m == release_action(state_machine, current_state,
                                               rec, key)
                           up == m.action.effect_up
                       IN \E api \in CallsOf(up) :
                            LET r == IF up = NoCallback THEN Done("ok", <<>>)
                                     ELSE run_callback(up, api, EffectCells, TRUE)
                            IN /\ stage' = IF r.result = "panic" THEN "crashed"
                                           ELSE stage
                               /\ last_op' = [op |-> "release",
                                              key |-> <<key, {}>>,
                                              state_num |-> rec.state,
                                              effect |-> up,
                                              chord |-> m.chord, api |-> api,
                                              result |-> r.result,
                                              sent |-> r.sent,
                                              returned |-> NoCallback,
                                              next |-> NoMode,
                                              dropped |-> NoCallback]
  /\ UNCHANGED <<pipeline_vars, input_vars, play_vars, note_vars, keyspec_vars, state_machine,
                 current_state, nsetup>>

ConfigNext ==
  \/ MkMode
  \/ Bind
  \/ BindUp
  \/ Unbind
  \/ FinishLoad
  \/ KeyPress
  \/ KeyRelease

\* ------------------------------------------- play and mute (config.rs:573-621)
\* The closures mkPlay and mkMute return, fired as key effects once
\* JamConfigLua::setup has installed the Sender of setup_rendering: they call
\* native_play / native_mute with the arguments mkPlay / mkMute were given.
\* The Receiver lives in the render thread and is dropped when it returns.
PlayInputs ==
  [instrument : InstrumentIds, pitch : {NoPitch, 220, 440},
   voice : {NoVoice} \cup VoiceIds]
MuteInputs == [instrument : InstrumentIds, voice : {NoVoice} \cup VoiceIds]

NoCall == [api |-> "none", args |-> [instrument |-> 0, voice |-> NoVoice],
           result |-> "ok"]

\* JamConfigLua::setup (config.rs:567-569): a fresh channel, nothing sent yet.
PlayInit ==
  /\ submission = <<>>
  /\ recv = TRUE
  /\ ncalls = 0
  /\ last_call = NoCall

\* The closure of native_make_play fires (config.rs:329-331).
PlayEffect ==
  /\ ncalls < MaxCalls
  /\ last_call.result # "panic"
  /\ \E args \in PlayInputs :
       LET r == native_play(args, recv)
       IN /\ submission' = submission \o r.sent
          /\ last_call' = [api |-> "play", args |-> args, result |-> r.result]
  /\ ncalls' = ncalls + 1
  /\ UNCHANGED <<pipeline_vars, input_vars, note_vars, keyspec_vars, config_vars, recv>>

\* The closure of native_make_mute fires (config.rs:339-341).
MuteEffect ==
  /\ ncalls < MaxCalls
  /\ last_call.result # "panic"
  /\ \E args \in MuteInputs :
       LET r == native_mute(args, recv)
       IN /\ submission' = submission \o r.sent
          /\ last_call' = [api |-> "mute", args |-> args, result |-> r.result]
  /\ ncalls' = ncalls + 1
  /\ UNCHANGED <<pipeline_vars, input_vars, note_vars, keyspec_vars, config_vars, recv>>

\* The render thread returns (render.rs:61) and its Receiver is dropped.
RecvDropped ==
  /\ recv
  /\ recv' = FALSE
  /\ UNCHANGED <<pipeline_vars, input_vars, note_vars, keyspec_vars, config_vars,
                 submission, ncalls, last_call>>

PlayNext == PlayEffect \/ MuteEffect \/ RecvDropped

\* ----------------------------------------------------- the key-event model
\* VizData (input.rs): the set of codes held and the sender of the event
\* channel. Pitches are in hundredths of a hertz.

\* The match of code_to_pitch_and_voice: the scale degree of a mapped code.
NoteOfCode ==
  [KeyA |-> 0, KeyS |-> 2, KeyD |-> 4, KeyF |-> 5, KeyJ |-> 7, KeyK |-> 9,
   KeyL |-> 11, Semicolon |-> 12]

\* 440.0 * powf(2.0, note / 12.0) for the degrees of the match, rounded to a
\* hundredth.
PitchOfNote ==
  (0 :> 44000) @@ (2 :> 49388) @@ (4 :> 55437) @@ (5 :> 58733) @@
  (7 :> 65926) @@ (9 :> 73999) @@ (11 :> 83061) @@ (12 :> 88000)

\* Option<(f32, u32)>::None
NoKeyNote == [pitch |-> NoPitch, voice |-> NoVoice]

\* Faulty variant of code_to_pitch_and_voice: every mapped code plays voice 0.
code_to_pitch_and_voice_shared(code) ==
  IF code \in DOMAIN NoteOfCode
  THEN [pitch |-> PitchOfNote[NoteOfCode[code]], voice |-> 0]
  ELSE NoKeyNote

\* code_to_pitch_and_voice
code_to_pitch_and_voice(code) ==
  IF code \in DOMAIN NoteOfCode
  THEN [pitch |-> PitchOfNote[NoteOfCode[code]], voice |-> NoteOfCode[code]]
  ELSE NoKeyNote

\* The codes of the window events: two mapped keys and one that is not.
InputCodes == {"KeyA", "KeyS", "KeyQ"}

NoWindowEvent == [kind |-> "none", code |-> ""]

\* VizData::new
InputInit ==
  /\ pressed = {}
  /\ isent = <<>>
  /\ nwin = 0
  /\ last_win = NoWindowEvent

\* The three events the model sends (input.rs:39-46, 47-55, 65-73).
NextNotePitch(pitch) ==
  [kind |-> "InstSetParam", iid |-> 0, voice |-> 0,
   param |-> [field |-> "pitch", value |-> pitch]]
NoteHit(voice) == [kind |-> "Hit", iid |-> 0, voice |-> voice, param |-> NoParam]
NoteMute(voice) == [kind |-> "Mute", iid |-> 0, voice |-> voice, param |-> NoParam]

\* WindowEvent::KeyDown (input.rs:31-56)
InputKeyDown ==
  /\ nwin < MaxWindowEvents
  /\ \E code \in InputCodes :
       LET pv == code_to_pitch_and_voice(code)
       IN /\ pressed' = pressed \cup {code}
          /\ isent' = IF code \in pressed \/ pv = NoKeyNote
                      THEN isent
                      ELSE send(send(isent, NextNotePitch(pv.pitch),
                                     Len(isent) + 1),
                                NoteHit(pv.voice), Len(isent) + 2)
          /\ last_win' = [kind |-> "KeyDown", code |-> code]
  /\ nwin' = nwin + 1
  /\ UNCHANGED <<pipeline_vars, note_vars, keyspec_vars, config_vars, play_vars>>

\* WindowEvent::KeyUp (input.rs:57-74)
InputKeyUp ==
  /\ nwin < MaxWindowEvents
  /\ \E code \in InputCodes :
       LET pv == code_to_pitch_and_voice(code)
       IN /\ pressed' = pressed \ {code}
          /\ isent' = IF code \notin pressed \/ pv = NoKeyNote
                      THEN isent
                      ELSE send(isent, NoteMute(pv.voice), Len(isent) + 1)
          /\ last_win' = [kind |-> "KeyUp", code |-> code]
  /\ nwin' = nwin + 1
  /\ UNCHANGED <<pipeline_vars, note_vars, keyspec_vars, config_vars, play_vars>>

\* Any other window event (input.rs:75).
InputOther ==
  /\ nwin < MaxWindowEvents
  /\ last_win' = [kind |-> "Other", code |-> ""]
  /\ nwin' = nwin + 1
  /\ UNCHANGED <<pipeline_vars, note_vars, keyspec_vars, config_vars, play_vars,
                 pressed, isent>>

InputNext == InputKeyDown \/ InputKeyUp \/ InputOther

\* ------------------------------------------------------------ specification
\* The pipeline with the other subjects at rest.
Init ==
  PipelineInit /\ NoteInit /\ KeyspecRest /\ ConfigInit /\ PlayInit /\ InputInit

Next ==
  \/ CbInvoke
  \/ CbWaitBreak
  \/ CbWaitSleep
  \/ CbWake
  \/ CbConsume
  \/ SendEvent
  \/ SendNone
  \/ RenderRecvEvent
  \/ RenderRecvNone
  \/ RenderRecvEmpty
  \/ RenderHandle
  \/ RenderProduceFull
  \/ RenderProducePush

Spec == Init /\ [][Next]_vars

\* The steps of the audio callback once invoked, and of the render thread.
CallbackStep == CbWaitBreak \/ CbWaitSleep \/ CbWake \/ CbConsume
RenderStep ==
  \/ RenderRecvEvent
  \/ RenderRecvNone
  \/ RenderRecvEmpty
  \/ RenderHandle
  \/ RenderProduceFull
  \/ RenderProducePush

\* Both threads keep running: the callback thread takes its next step whenever
\* it stays possible, the render thread (maximum priority) whenever it is
\* possible again and again.
FairSpec == Init /\ [][Next]_vars /\ WF_vars(CallbackStep) /\ SF_vars(RenderStep)

\* One HeldButton note driven by the render loop.
NoteSpec == Init /\ [][NoteNext]_vars

\* fmt_keyspec then parse_keyspec, for every chord.
KeyspecSpecInit ==
  PipelineInit /\ NoteInit /\ KeyspecInit /\ ConfigInit /\ PlayInit /\ InputInit
KeyspecSpec == KeyspecSpecInit /\ [][KeyspecNext]_vars

\* The configuration script, then key presses and releases.
ConfigSpec == Init /\ [][ConfigNext]_vars

\* The render thread alone (no audio callback, no shutdown), with events of
\* every parameter kind.
EventNext ==
  \/ SendTemplateEvent
  \/ RenderRecvEvent
  \/ RenderRecvEmpty
  \/ RenderHandle
  \/ RenderProduceFull
  \/ RenderProducePush

EventSpec == Init /\ [][EventNext]_vars

\* Key effects that play and mute, on the installed event channel.
PlaySpec == Init /\ [][PlayNext]_vars

\* The window events of the key-event model.
InputSpec == Init /\ [][InputNext]_vars

\* ------------------------------------------------------------------ claims
\* The step in which the consume step of the callback runs.
ConsumeStep == cb_pc = "consume" /\ cb_pc' = "idle"
\* The step in which the render thread handles one event.
HandleStep == r_pc = "handle" /\ r_pc' = "drain"
\* A step that appends one sample to the ring.
PushStep == Len(buffer') = Len(buffer) + 1

\* C1: after every render-queue operation (push, discard while handling an
\* event, consume), head_time() - tail_time() is the number of samples in
\* the ring.
C1_QueueClockIdentity == head_time - tail_time = Len(buffer)

\* C1 witness: samples are queued after a consume and a discard have happened.
C1_Witness == Len(buffer) > 0 /\ tail_frame > 0 /\ handled # <<>>

\* C2: the ring never holds more than its capacity; a sample is pushed only
\* when len < capacity, and the frame-production step on a full ring leaves
\* the ring as it is and the lock free.
C2_RingBounded ==
  [][/\ Len(buffer') <= MAX_BUFFER_SPECULATE_SIZE
     /\ PushStep => Len(buffer) < MAX_BUFFER_SPECULATE_SIZE
     /\ (r_pc = "produce" /\ r_pc' = "drain"
         /\ Len(buffer) = MAX_BUFFER_SPECULATE_SIZE)
        => (buffer' = buffer /\ lock' = "free")]_vars

\* C2 witness: the render thread is at its frame-production step with the
\* ring full.
C2_Witness == r_pc = "produce" /\ Len(buffer) = MAX_BUFFER_SPECULATE_SIZE

\* C3: tail_frame changes only in the callback's consume step, by the number
\* of samples that step popped (num_frames or 0); no other step changes it,
\* and it never decreases.
C3_TailOnlyByCallback ==
  [][/\ tail_frame' >= tail_frame
     /\ ConsumeStep =>
          /\ tail_frame' - tail_frame = Len(buffer) - Len(buffer')
          /\ tail_frame' - tail_frame \in {0, num_frames}
     /\ ~ConsumeStep => tail_frame' = tail_frame]_vars

\* C3 witness: the callback has consumed, the render thread has handled an
\* event and pushed again.
C3_Witness == tail_frame > 0 /\ handled # <<>> /\ Len(buffer) > 0 /\ cb_pc = "idle"

\* C4: the consume step is all-or-nothing: with len >= num_frames it pops
\* exactly the num_frames oldest samples, in order, into the output and sets
\* last_consumed_size = num_frames; otherwise it pops nothing, leaves output
\* and tail_frame unchanged and sets last_consumed_size = 0.
C4_ConsumeAllOrNothing ==
  [][ConsumeStep =>
       IF Len(buffer) >= num_frames
       THEN /\ output' = SubSeq(buffer, 1, num_frames)
            /\ buffer' = SubSeq(buffer, num_frames + 1, Len(buffer))
            /\ last_consumed_size' = num_frames
       ELSE /\ buffer' = buffer
            /\ output' = output
            /\ tail_frame' = tail_frame
            /\ last_consumed_size' = 0]_vars

\* C4 witness: after an earlier full consume, an invocation for two frames
\* returned without consuming, its output untouched.
C4_Witness ==
  /\ cb_pc = "idle"
  /\ tail_frame > 0
  /\ num_frames = 2
  /\ last_consumed_size = 0
  /\ output = <<Stale, Stale>>

\* C5 (as claimed): while the callback sleeps in its wait loop it does not
\* hold the render-queue mutex.
C5_SleepsWithoutLock == cb_pc = "sleeping" => lock = "free"

\* C6 (as claimed): one invocation of the callback sleeps at most once.
C6_AtMostOneSleep == sleeps <= 1

\* C7 (as claimed): every invocation of the callback eventually returns.
C7_CallbackReturns == (cb_pc # "idle") ~> (cb_pc = "idle")

\* The ids of the notes in the voice map.
VoiceNoteIds == {voices[k].note.id : k \in DOMAIN voices}

\* C8: each note is in at most one slot of the voice map; a Hit on an
\* occupied key puts the new note there, the displaced note gets exactly one
\* mute() call in that step, is in the voice map no longer and is mixed into
\* no sample of the ring from then on.
C8_VoiceUniqueness ==
  [][/\ \A k1, k2 \in DOMAIN voices' :
          voices'[k1].note.id = voices'[k2].note.id => k1 = k2
     /\ VoiceNoteIds' \cap displaced' = {}
     /\ \A i \in 1 .. Len(buffer') : buffer'[i].notes \cap displaced' = {}
     /\ (HandleStep /\ event.kind = "Hit"
         /\ <<event.iid, event.voice>> \in DOMAIN voices)
        => LET key == <<event.iid, event.voice>>
               old == voices[key].note.id
           IN /\ voices'[key].note.id = event.id
              /\ old \in displaced'
              /\ mute_calls'[old] = mute_calls[old] + 1
              /\ \A n \in DOMAIN mute_calls :
                   n # old => mute_calls'[n] = mute_calls[n]]_vars

\* C8 witness: a note has been displaced and a frame pushed afterwards.
C8_Witness == displaced # {} /\ Len(buffer) > 0 /\ voices # <<>>

\* C9: once the render thread has received None it has terminated: the
\* events handled are exactly those sent before that None, in order, every
\* later event stays unhandled, and from then on nothing is handled, the
\* instruments and voices stay as they are and no sample is pushed.
C9_Shutdown ==
  [][/\ r_pc' = "exited" =>
          /\ event'.kind = "None"
          /\ handled' = [i \in 1 .. (event'.id - 1) |-> i]
          /\ \A j \in 1 .. Len(chan') : chan'[j].id > event'.id
     /\ r_pc = "exited" =>
          /\ r_pc' = "exited"
          /\ handled' = handled
          /\ instruments' = instruments
          /\ voices' = voices
          /\ ~PushStep]_vars

\* C9 witness: the thread has exited having handled an event sent before the
\* None, with an event sent after it left in the channel.
C9_Witness == r_pc = "exited" /\ handled # <<>> /\ chan # <<>>

\* C10: events are handled in the order sent, none skipped (ids number the
\* events in send order); instruments change only in the step that handles an
\* event; the for loop over the channel ends only on an empty channel, and a
\* sample is pushed only after it ended, so no frame is produced between two
\* events pending together.
C10_EventsFifo ==
  [][/\ \A i \in 1 .. Len(handled') : handled'[i] = i
     /\ HandleStep => handled' = Append(handled, event.id)
     /\ instruments' # instruments => HandleStep
     /\ (r_pc = "drain" /\ r_pc' = "produce") => chan = <<>>
     /\ PushStep => (r_pc = "produce" /\ r_pc' = "drain")]_vars

\* C10 witness: two events were handled and a frame produced afterwards.
C10_Witness == Len(handled) >= 2 /\ Len(buffer) > 0

\* Whether the event in hand is one the match drops: its instrument id is out
\* of range, or it is a note SetParam or Mute for a key with no note.
Dropped(ev) ==
  \/ ev.iid \notin DOMAIN instruments
  \/ /\ ev.kind \in {"NoteSetParam", "Mute"}
     /\ <<ev.iid, ev.voice>> \notin DOMAIN voices

\* C11: the step that handles an event addressed to an out-of-range
\* instrument, or a note SetParam/Mute for a key with no note, leaves the
\* instruments and the voice map as they are, calls mute() on nothing, and
\* the render thread goes on with the next event.
C11_DropsUnknownTarget ==
  [][(HandleStep /\ Dropped(event)) =>
       /\ instruments' = instruments
       /\ voices' = voices
       /\ mute_calls' = mute_calls
       /\ displaced' = displaced
       /\ handled' = Append(handled, event.id)
       /\ r_pc' = "drain"]_vars

\* C11 witness: two events were handled, a Hit and one that was dropped: one
\* untouched note is in the voice map and the instruments are as constructed.
C11_Witness ==
  /\ Len(handled) = 2
  /\ Cardinality(DOMAIN voices) = 1
  /\ \A k \in DOMAIN voices :
       /\ ~voices[k].note.change_pending
       /\ ~voices[k].note.mute_pending
       /\ voices[k].note.mute_at = NoFrame
       /\ mute_calls[voices[k].note.id] = 0
  /\ \A i \in DOMAIN instruments : instruments[i].next_note = DefaultParams
  /\ r_pc = "produce"

\* C12: the note a Hit inserts gets start_frame = head_time() as read in the
\* handling step (after the discard), and every sample a note is mixed into
\* is rendered for a frame >= the note's start_frame.
C12_HitStartsAtHead ==
  [][/\ (HandleStep /\ event.kind = "Hit" /\ event.iid \in DOMAIN instruments)
        => /\ <<event.iid, event.voice>> \in DOMAIN voices'
           /\ voices'[<<event.iid, event.voice>>].ts = head_time'
           /\ voices'[<<event.iid, event.voice>>].note.id = event.id
     /\ PushStep =>
          \A id \in buffer'[Len(buffer')].notes :
            \E k \in DOMAIN voices :
              /\ voices[k].note.id = id
              /\ voices[k].ts <= buffer'[Len(buffer')].frame]_vars

\* C12 witness: a sample with a note mixed in is queued after a consume.
C12_Witness ==
  /\ tail_frame > 0
  /\ \E i \in 1 .. Len(buffer) : buffer[i].notes # {}

\* The release time of the claim: half a second of frames.
ReleaseFrames == SampleRate \div 2

\* C18: the retain step removes a note only if the note was muted, the mute
\* was consumed at relative frame r (mute_at = r), and the relative tail time
\* exceeds r + release, where release is sample_rate / 2 frames; a note that
\* was never muted is never removed.
C18_FinishedAfterRelease ==
  [][PushStep =>
       \A k \in DOMAIN voices \ DOMAIN voices' :
         /\ voices[k].note.mute_at # NoFrame
         /\ tail_time - voices[k].ts >
              voices[k].note.mute_at + ReleaseFrames]_vars

\* ---- ConfigSpec claims
Ca == <<"KeyA", {"CTRL"}>>
CSa == <<"KeyA", {"CTRL", "SHIFT"}>>
Sa == <<"KeyA", {"SHIFT"}>>

\* The last handler was a key press that fired this action with this chord.
Fired(action, chord) ==
  /\ last_op.effect = action.effect
  /\ last_op.chord = chord
  /\ current_state = action.state

\* C13: in a mode where C-a and C-S-a are bound, a press of Ctrl+Shift+a
\* fires the C-S-a action; where of the two only C-a is bound (C-S-a removed
\* or never bound) it fires C-a; where no chord of the key is bound it fires
\* the mode's default. With exactly those two bound, Ctrl+a fires C-a and
\* Shift+a fires the default.
C13_ModifierPrecedence ==
  (last_op.op = "press" /\ last_op.effect # NoCallback) =>
    LET st == state_machine[last_op.state_num + 1]
        bound == DOMAIN st.keys
    IN /\ (last_op.key = CSa /\ {Ca, CSa} \subseteq bound)
            => Fired(st.keys[CSa], CSa)
       /\ (last_op.key = CSa /\ bound = {Ca}) => Fired(st.keys[Ca], Ca)
       /\ (last_op.key = CSa /\ bound = {}) => Fired(st.default, CSa)
       /\ (last_op.key = Ca /\ bound = {Ca, CSa}) => Fired(st.keys[Ca], Ca)
       /\ (last_op.key = Sa /\ bound = {Ca, CSa}) => Fired(st.default, Sa)

\* C13 witness: C-a and C-S-a are bound to different Lua functions in the
\* mode of the press, and Ctrl+Shift+a fired the one of C-S-a.
C13_Witness ==
  /\ last_op.op = "press"
  /\ last_op.key = CSa
  /\ valid_mode(state_machine, last_op.state_num)
  /\ LET keys == state_machine[last_op.state_num + 1].keys
     IN /\ DOMAIN keys = {Ca, CSa}
        /\ keys[Ca].effect # keys[CSa].effect
        /\ last_op.effect = keys[CSa].effect
        /\ last_op.result = "ok"

\* C14: a press records (mode before the press, matched mask) for its key,
\* and the release of a recorded key looks for its release handler in the
\* binding of (recorded mode, key, recorded mask) (the recorded mode's
\* default if that chord is not bound there), whatever the current mode is;
\* it hands the handler that chord and leaves current_state alone.
C14_ReleaseRouting ==
  [][/\ (last_op'.op = "press" /\ last_op'.effect # NoCallback)
          => /\ last_op'.key[1] \in DOMAIN keyup_actions'
             /\ keyup_actions'[last_op'.key[1]] =
                  [state |-> current_state, mods |-> last_op'.chord[2]]
     /\ (last_op'.op = "release" /\ last_op'.key[1] \in DOMAIN keyup_actions)
          => LET code == last_op'.key[1]
                 rec == keyup_actions[code]
                 st == state_machine[rec.state + 1]
                 chord == <<code, rec.mods>>
                 action == IF chord \in DOMAIN st.keys THEN st.keys[chord]
                           ELSE st.default
             IN /\ last_op'.effect = action.effect_up
                /\ last_op'.chord = chord
                /\ current_state' = current_state]_vars

\* C14 witness: a release handler ran for a key that was pressed in a mode
\* other than the one current at the release.
C14_Witness ==
  /\ last_op.op = "release"
  /\ last_op.effect \in Callbacks
  /\ last_op.result = "ok"
  /\ last_op.state_num # current_state
  /\ valid_mode(state_machine, current_state)

\* C15: for every chord whose key has a token, and each of the 16 modifier
\* sets, parse_keyspec(fmt_keyspec(chord)) is Ok(chord).
C15_KeyspecRoundTrip ==
  (ks_parsed # NoResult /\ ks_chord[1] \in KnownKeys)
    => ks_parsed = ParseOk(ks_chord)

\* C15 witness: the round trip of Ctrl+Shift+Alt+Super+Minus, whose key token
\* is spelled with the separator's name.
C15_Witness ==
  /\ ks_chord = <<"Minus", Modifiers>>
  /\ ks_parsed = ParseOk(ks_chord)

\* C16: a Lua function running as a key effect that calls bind, unbind,
\* bindUp or mkMode gets an error back from the call, the mode vector and
\* its bindings are unchanged, and the program goes on.
C16_SetupInEffectReportsError ==
  [][(last_op'.op \in {"press", "release"} /\ last_op'.api \in SetupApi)
       => /\ last_op'.result = "error"
          /\ state_machine' = state_machine
          /\ stage' = "run"]_vars

\* C17: a Lua function running as a key effect that calls play or mute has
\* the call succeed and its events sent on the event channel.
C17_PlayInEffectSends ==
  [][(last_op'.op \in {"press", "release"} /\ last_op'.api \in CallbackApi)
       => /\ last_op'.result = "ok"
          /\ last_op'.sent # <<>>]_vars

\* ---- NoteSpec claims

\* C19: every sample render returns has an envelope factor in [0, 1] and a
\* magnitude of at most the note's amplitude.
C19_EnvelopeBounds ==
  hout.time # NoFrame =>
    /\ 0 <= hout.adsr
    /\ hout.adsr <= 1000
    /\ hout.value <= hnote.params.amplitude
    /\ -hout.value <= hnote.params.amplitude

\* C20: the render call that adopts the first pitch change, at relative frame
\* t, produces the sample of the phase the old pitch reaches at t (the note
\* started at phase 0 at frame 0), and leaves change_phase at that phase and
\* change_at at t.
C20_PhaseContinuity ==
  [][(hclock'.now = hclock.now + 1 /\ hnote.change_pending
        /\ hnote.params = DefaultParams)
       => /\ hout'.time = hclock.now
          /\ hout'.phase = (hclock.now * DefaultParams.pitch) % SampleRate
          /\ hosc'.change_phase = (hclock.now * DefaultParams.pitch) % SampleRate
          /\ hnote'.change_at = hclock.now]_vars

\* ---- more pipeline claims
\* A sample no note was mixed into: result stays 0f32 (render.rs:122-130).
Zero(sample) == sample.notes = {}

KsTokens == split(ks_text, "-")
KsKeyToken == KsTokens[Len(KsTokens)]
KsModTokens == {KsTokens[i] : i \in 1 .. (Len(KsTokens) - 1)}
IsKeyToken(t) == \E k \in KnownKeys : KeyTokens[k] = t
IsModToken(t) == t \in {<<"C">>, <<"S">>, <<"A">>, <<"W">>}
ModOf(t) ==
  IF t = <<"C">> THEN "CTRL" ELSE IF t = <<"S">> THEN "SHIFT"
  ELSE IF t = <<"A">> THEN "ALT" ELSE "SUPER"

\* What the parse of a text gives, but for the token BadKey carries.
KsOutcome ==
  /\ (ks_parsed.err = "Empty") <=> (ks_text = <<>>)
  /\ (ks_text # <<>> /\ ~IsKeyToken(KsKeyToken)) => ks_parsed.err = "BadKey"
  /\ (IsKeyToken(KsKeyToken) /\ \E t \in KsModTokens : ~IsModToken(t))
       => /\ ks_parsed.err = "BadModifier"
          /\ ks_parsed.text \in {t \in KsModTokens : ~IsModToken(t)}
  /\ (IsKeyToken(KsKeyToken) /\ \A t \in KsModTokens : IsModToken(t))
       => /\ ks_parsed.ok
          /\ KeyTokens[ks_parsed.chord[1]] = KsKeyToken
          /\ ks_parsed.chord[2] = {ModOf(t) : t \in KsModTokens}
  /\ ~ks_parsed.ok => ks_parsed.chord = <<>>

\* C22 (as claimed): parse_keyspec fails with Empty exactly for the empty
\* text, with BadKey(last token) when the last hyphen-separated token is no
\* key token, with BadModifier(token) for a token before a valid key token
\* that is none of C, S, A, W; every other text parses to the chord of its
\* tokens, and a failed parse yields no chord.
C22_ParseFailures ==
  ks_parsed # NoResult =>
    /\ KsOutcome
    /\ ks_parsed.err = "BadKey" => ks_parsed.text = KsKeyToken

\* C22 (amended): the same, but the one-character text "-" fails with
\* BadKey("-"), the text itself, and not with BadKey of its empty last token.
C22_ParseFailuresAmended ==
  ks_parsed # NoResult =>
    /\ KsOutcome
    /\ ks_parsed.err = "BadKey" =>
         ks_parsed.text = IF ks_text = <<"-">> THEN ks_text ELSE KsKeyToken

\* C22 witness: "C-F1-a" has a valid key token and the bad modifier token F1.
C22_Witness ==
  /\ ks_text = <<"C", "-", "F", "1", "-", "a">>
  /\ ks_parsed = ParseErr("BadModifier", <<"F", "1">>)

\* ---- PlaySpec claims
\* The events of the claim: SetParam(NextNote(Pitch(pitch))) for an
\* instrument, Hit for (instrument, voice).
SetPitchEvent(instrument, pitch) ==
  [kind |-> "InstSetParam", iid |-> instrument, voice |-> 0,
   param |-> [field |-> "pitch", value |-> pitch]]
HitEvent(instrument, voice) ==
  [kind |-> "Hit", iid |-> instrument, voice |-> voice, param |-> NoParam]

\* C23: a play call on a live channel appends to it SetParam(NextNote(
\* Pitch(pitch))) for the instrument and then Hit for (instrument, voice),
\* nothing else and nothing in between; the voice is 0 when omitted, and
\* with the pitch omitted only the Hit is appended.
C23_PlaySendsSetParamThenHit ==
  [][(ncalls' = ncalls + 1 /\ last_call'.api = "play" /\ recv) =>
       LET a == last_call'.args
           voice == IF a.voice = NoVoice THEN 0 ELSE a.voice
       IN /\ last_call'.result = "ok"
          /\ submission' = submission \o
               (IF a.pitch # NoPitch
                THEN <<SetPitchEvent(a.instrument, a.pitch),
                       HitEvent(a.instrument, voice)>>
                ELSE <<HitEvent(a.instrument, voice)>>)]_vars

\* C23 witness: a play without pitch on voice 1 sent its Hit alone, then a
\* play with pitch 440 and no voice sent SetParam and Hit on voice 0.
C23_Witness ==
  /\ submission = <<HitEvent(0, 1), SetPitchEvent(0, 440), HitEvent(0, 0)>>
  /\ last_call.api = "play"
  /\ last_call.args.voice = NoVoice
  /\ recv

\* ---- more ConfigSpec claims
\* The last handler was a key press that got as far as firing an effect.
Pressed == last_op.op = "press" /\ last_op.effect # NoCallback

\* The indices of the precedence table whose mask is bound for the code in
\* these bindings and contained in these modifiers.
BoundSubsetMasks(keys, code, mods) ==
  {i \in 1 .. Len(ORDERED_MODIFIERS) :
     /\ ORDERED_MODIFIERS[i] \subseteq mods
     /\ <<code, ORDERED_MODIFIERS[i]>> \in DOMAIN keys}

\* C24: the binding (code, M) that fires has M contained in the pressed
\* modifiers and no bound contained mask stands before M in the precedence
\* table; its effect gets the chord (code, M). With only C-a and S-a bound,
\* Ctrl+Shift+a fires S-a. If no contained mask is bound the mode's default
\* fires with the chord as pressed. The table holds each of the 16 subsets
\* of the four modifiers once, larger masks before smaller ones.
C24_PrecedenceTable ==
  /\ Len(ORDERED_MODIFIERS) = 16
  /\ {ORDERED_MODIFIERS[i] : i \in 1 .. 16} = SUBSET Modifiers
  /\ \A i, j \in 1 .. 16 :
       i < j => Cardinality(ORDERED_MODIFIERS[i]) >= Cardinality(ORDERED_MODIFIERS[j])
  /\ Pressed =>
       LET st == state_machine[last_op.state_num + 1]
           code == last_op.key[1]
           mods == last_op.key[2]
           cands == BoundSubsetMasks(st.keys, code, mods)
       IN /\ cands # {} =>
               \E i \in cands :
                 /\ \A j \in cands : i <= j
                 /\ last_op.chord = <<code, ORDERED_MODIFIERS[i]>>
                 /\ last_op.chord[2] \subseteq mods
                 /\ last_op.effect = st.keys[last_op.chord].effect
          /\ cands = {} =>
               /\ last_op.chord = last_op.key
               /\ last_op.effect = st.default.effect
          /\ (DOMAIN st.keys = {Ca, Sa} /\ last_op.key = CSa) =>
               /\ last_op.chord = Sa
               /\ last_op.effect = st.keys[Sa].effect

\* C24 witness: only C-a and S-a are bound, to different functions, and
\* Ctrl+Shift+a fired the one of S-a.
C24_Witness ==
  /\ Pressed
  /\ last_op.key = CSa
  /\ valid_mode(state_machine, last_op.state_num)
  /\ LET keys == state_machine[last_op.state_num + 1].keys
     IN /\ DOMAIN keys = {Ca, Sa}
        /\ keys[Ca].effect # keys[Sa].effect
        /\ last_op.effect = keys[Sa].effect
        /\ last_op.chord = Sa

\* The action of the mode that fires for the chord an effect was handed: the
\* chord's binding, the default if the chord is not bound.
ActionFor(st, chord) ==
  IF chord \in DOMAIN st.keys THEN st.keys[chord] ELSE st.default

\* C25: a key press is resolved in the mode that is current before it, sets
\* current_state to the next_state of the action that fires and records for
\* its key (mode before the press, mask of the chord handed to the effect:
\* the matched mask, or the pressed modifiers for the default); a key release
\* leaves current_state alone.
C25_PressMovesAndRecords ==
  [][/\ (last_op'.op = "press" /\ last_op'.effect # NoCallback) =>
          LET st == state_machine[current_state + 1]
              action == ActionFor(st, last_op'.chord)
              code == last_op'.key[1]
          IN /\ last_op'.state_num = current_state
             /\ last_op'.effect = action.effect
             /\ current_state' = action.state
             /\ code \in DOMAIN keyup_actions'
             /\ keyup_actions'[code].state = current_state
             /\ keyup_actions'[code].mods = last_op'.chord[2]
             /\ (last_op'.chord \notin DOMAIN st.keys) =>
                  keyup_actions'[code].mods = last_op'.key[2]
     /\ last_op'.op = "release" => current_state' = current_state]_vars

\* C25 witness: a press in mode 1, reached by an earlier press whose record
\* it replaced, fired a binding of mode 1 and moved back to mode 0.
C25_Witness ==
  /\ Pressed
  /\ last_op.state_num = 1
  /\ current_state = 0
  /\ last_op.chord \in DOMAIN state_machine[2].keys
  /\ keyup_actions["KeyA"] = [state |-> 1, mods |-> last_op.chord[2]]

\* The bindings of every (mode, chord) but one are the same in two mode
\* vectors, the defaults and the number of modes too.
SameButFor(sm1, sm2, mode, chord) ==
  /\ Len(sm1) = Len(sm2)
  /\ \A m \in 1 .. Len(sm1) :
       /\ sm1[m].default = sm2[m].default
       /\ \A c \in (DOMAIN sm1[m].keys \cup DOMAIN sm2[m].keys) :
            (m # mode + 1 \/ c # chord) =>
              /\ c \in DOMAIN sm1[m].keys
              /\ c \in DOMAIN sm2[m].keys
              /\ sm1[m].keys[c] = sm2[m].keys[c]

\* C29: bind(mode, chord, action, next) leaves the chord bound in the mode to
\* the action, with next state next (mode when next is omitted), and returns
\* the action bound there before, if any; unbind(mode, chord) returns the
\* action bound there, if any, and leaves the chord unbound; neither changes
\* another chord's or mode's binding, nor current_state; and a press that
\* resolves to a bound chord fires the action bound there and moves to its
\* next state.
C29_BindUnbind ==
  [][/\ (last_op'.op = "bind" /\ last_op'.result = "ok") =>
          LET mode == last_op'.state_num
              chord == last_op'.chord
              before == state_machine[mode + 1].keys
              after == state_machine'[mode + 1].keys
          IN /\ chord \in DOMAIN after
             /\ after[chord].effect = last_op'.effect
             /\ after[chord].state =
                  (IF last_op'.next = NoMode THEN mode ELSE last_op'.next)
             /\ last_op'.returned =
                  (IF chord \in DOMAIN before THEN before[chord].effect
                   ELSE NoCallback)
             /\ SameButFor(state_machine, state_machine', mode, chord)
             /\ current_state' = current_state
     /\ (last_op'.op = "unbind" /\ last_op'.result = "ok") =>
          LET mode == last_op'.state_num
              chord == last_op'.chord
              before == state_machine[mode + 1].keys
          IN /\ chord \notin DOMAIN state_machine'[mode + 1].keys
             /\ last_op'.returned =
                  (IF chord \in DOMAIN before THEN before[chord].effect
                   ELSE NoCallback)
             /\ SameButFor(state_machine, state_machine', mode, chord)
             /\ current_state' = current_state
     /\ (last_op'.op = "press" /\ last_op'.effect # NoCallback
         /\ last_op'.chord \in DOMAIN state_machine[current_state + 1].keys) =>
          LET b == state_machine[current_state + 1].keys[last_op'.chord]
          IN /\ last_op'.effect = b.effect
             /\ current_state' = b.state]_vars

\* C29 witness: with two chords bound in a mode, a bind without next
\* replaced one of them and returned the function bound there before.
C29_Witness ==
  /\ last_op.op = "bind"
  /\ last_op.result = "ok"
  /\ last_op.next = NoMode
  /\ last_op.returned \in Callbacks
  /\ last_op.returned # last_op.effect
  /\ Cardinality(DOMAIN state_machine[last_op.state_num + 1].keys) = 2

\* C30: the release of a key with no recorded press invokes no handler and
\* leaves current_state and the pressed-key map as they are; the release of
\* a recorded key removes its record, so that a second release of the key
\* finds none.
C30_ReleaseWithoutPress ==
  [][last_op'.op = "release" =>
       LET code == last_op'.key[1]
       IN /\ code \notin DOMAIN keyup_actions'
          /\ code \notin DOMAIN keyup_actions =>
               /\ last_op'.effect = NoCallback
               /\ last_op'.result = "ok"
               /\ last_op'.sent = <<>>
               /\ keyup_actions' = keyup_actions
               /\ current_state' = current_state
               /\ stage' = stage]_vars

\* C30 witness: a press moved to mode 1, its release consumed the record,
\* and the last handler was a further release that found no record.
C30_Witness ==
  /\ last_op.op = "release"
  /\ last_op.state_num = NoMode
  /\ current_state = 1
  /\ DOMAIN keyup_actions = {}
  /\ stage = "run"

\* ---- more NoteSpec claims
\* The step in which the render loop renders the note.
NoteRenderStep == hclock'.now = hclock.now + 1
\* A step that handles an event without calling mute().
NoteQuietEventStep ==
  hclock'.events = hclock.events + 1 /\ hnote'.mute_pending = hnote.mute_pending

\* C26: set_param changes change_params (one field) and sets change_pending,
\* and leaves params, change_at, change_phase, the signal and the mute state
\* as they are; params change only in a render call, which with
\* change_pending set makes them change_params (whatever number of set_param
\* calls built it) and clears change_pending.
C26_SetParamDeferred ==
  [][/\ NoteQuietEventStep =>
          /\ hnote'.params = hnote.params
          /\ hnote'.change_at = hnote.change_at
          /\ hnote'.mute_at = hnote.mute_at
          /\ hosc' = hosc
          /\ hnote' # hnote =>
               /\ hnote'.change_pending
               /\ \E p \in NoteParamInputs :
                    /\ hnote'.change_params[p.field] = p.value
                    /\ \A f \in DOMAIN hnote.change_params :
                         f # p.field =>
                           hnote'.change_params[f] = hnote.change_params[f]
     /\ hnote'.params # hnote.params => NoteRenderStep
     /\ NoteRenderStep =>
          /\ ~hnote'.change_pending
          /\ hnote'.change_params = hnote.change_params
          /\ hnote'.params =
               (IF hnote.change_pending THEN hnote.change_params
                ELSE hnote.params)]_vars

\* C26 witness: a pitch and an amplitude were set, and a render call at
\* frame 0 adopted both.
C26_Witness ==
  /\ hclock.events = 2
  /\ hout.time = 0
  /\ ~hnote.change_pending
  /\ hnote.change_at = 0
  /\ hnote.params = [pitch |-> 440, amplitude |-> 200, articulation |-> 500]

\* The envelope factor of the claim d frames after the mute took effect, in
\* thousandths: (1 - d / release) * sustain, not below 0.
ReleaseEnvelope(d) ==
  IF d >= ReleaseFrames THEN 0 ELSE 500 - ((500 * d) \div ReleaseFrames)

\* C27: a render call at relative frame t >= r, r the frame at which the
\* mute took effect, has the envelope factor (1 - (t - r) / release) *
\* sustain clamped to >= 0, release being half a second of frames and
\* sustain 0.5: between 0 and 0.5, never negative.
C27_ReleaseEnvelope ==
  (hout.time # NoFrame /\ hnote.mute_at # NoFrame /\ hout.time >= hnote.mute_at)
    => /\ hout.adsr >= 0
       /\ hout.adsr <= 500
       /\ hout.adsr = ReleaseEnvelope(hout.time - hnote.mute_at)

\* ---- EventSpec claims
\* C28: handling an instrument-level SetParam(NextNote(p)) sets field p of
\* the instrument's next_note and nothing else: the other fields, and the
\* voice map with the params of every note in it, stay as they are; a Hit
\* puts under its key a note whose params and change_params are the next_note
\* of that moment, and leaves next_note and the other notes as they are.
C28_NextNoteTemplate ==
  [][/\ (HandleStep /\ event.kind = "InstSetParam"
         /\ event.iid \in DOMAIN instruments) =>
          /\ voices' = voices
          /\ instruments'[event.iid].next_note[event.param.field] =
               event.param.value
          /\ \A f \in DOMAIN DefaultParams :
               f # event.param.field =>
                 instruments'[event.iid].next_note[f] =
                   instruments[event.iid].next_note[f]
     /\ (HandleStep /\ event.kind = "Hit" /\ event.iid \in DOMAIN instruments) =>
          LET key == <<event.iid, event.voice>>
          IN /\ instruments' = instruments
             /\ voices'[key].note.id = event.id
             /\ voices'[key].note.params = instruments[event.iid].next_note
             /\ voices'[key].note.change_params =
                  instruments[event.iid].next_note
             /\ \A k \in DOMAIN voices : k # key => voices'[k] = voices[k]]_vars

\* C28 witness: voice 0 holds a note made from the default template, and
\* voice 1 one made by a later Hit, after the pitch of the template was set.
C28_Witness ==
  /\ DOMAIN voices = {<<0, 0>>, <<0, 1>>}
  /\ voices[<<0, 0>>].note.id = 1
  /\ voices[<<0, 0>>].note.params = DefaultParams
  /\ voices[<<0, 1>>].note.id = 3
  /\ voices[<<0, 1>>].note.params = [DefaultParams EXCEPT !.pitch = 220]
  /\ instruments[0].next_note.pitch = 220

\* ---- the frame clock
\* C31 (as claimed): head_time() never decreases, whatever the step (push,
\* event handling, consume); a consume leaves it unchanged and a push
\* increases it by one.
C31_HeadTimeMonotonic ==
  [][/\ head_time' >= head_time
     /\ ConsumeStep => head_time' = head_time
     /\ PushStep => head_time' = head_time + 1]_vars

\* C31 (amended): a consume leaves head_time() unchanged and a push increases
\* it by one; the step that handles an event sets it back to tail_time(),
\* dropping it by the number of samples discarded; no other step changes it,
\* and tail_time() never decreases.
C31_HeadTimeAmended ==
  [][/\ ConsumeStep => head_time' = head_time
     /\ PushStep => head_time' = head_time + 1
     /\ HandleStep =>
          /\ head_time' = tail_time
          /\ head_time' = head_time - Len(buffer)
     /\ ~(PushStep \/ HandleStep) => head_time' = head_time
     /\ tail_time' >= tail_time]_vars

\* C31 witness: the render thread is about to handle an event with samples
\* queued beyond a tail that has advanced, so head_time() is about to drop.
C31_Witness ==
  /\ r_pc = "handle"
  /\ lock = "free"
  /\ tail_frame > 0
  /\ Len(buffer) = MAX_BUFFER_SPECULATE_SIZE - 1

\* C33: for every note in the voice map, start_frame <= tail_time() <=
\* head_time() in every state, so at a frame-production step neither
\* retired - start nor now - start is negative.
C33_NoUnderflow ==
  /\ tail_time <= head_time
  /\ \A k \in DOMAIN voices :
       /\ voices[k].ts <= tail_time
       /\ tail_time - voices[k].ts >= 0
       /\ head_time - voices[k].ts >= 0

\* C33 witness: at a frame-production step there is a note that started
\* after frame 0, consumes have moved the tail past its start, and samples
\* are queued.
C33_Witness ==
  /\ r_pc = "produce"
  /\ Len(buffer) > 0
  /\ \E k \in DOMAIN voices : voices[k].ts > 0 /\ voices[k].ts < tail_time

\* C34: the step that handles an event, dropped or not, empties the ring and
\* leaves tail_frame as it is, so that head_time() = tail_time() after it; the
\* callback is handed only samples that are in the ring at its consume step;
\* and the first sample pushed into the emptied ring is rendered for frame
\* tail_frame, the first of the discarded indices.
C34_DiscardOnEvent ==
  [][/\ HandleStep =>
          /\ buffer' = <<>>
          /\ tail_frame' = tail_frame
          /\ head_time' = tail_time'
     /\ (ConsumeStep /\ output' # output) =>
          output' = SubSeq(buffer, 1, num_frames)
     /\ (PushStep /\ buffer = <<>>) => buffer'[1].frame = tail_frame]_vars

\* C34 witness: after a consume, an event for a key with no note was handled
\* (nothing in the voice map, the template untouched) and the emptied ring
\* holds one sample again, rendered for frame tail_frame.
C34_Witness ==
  /\ Len(handled) = 1
  /\ DOMAIN voices = {}
  /\ \A i \in DOMAIN instruments : instruments[i].next_note = DefaultParams
  /\ tail_frame > 0
  /\ Len(buffer) = 1
  /\ buffer[1].frame = tail_frame

\* C35: the sample at offset i from the front of the ring was rendered for
\* frame tail_frame + i; a consume step hands the callback the samples of
\* frames tail_frame .. tail_frame + num_frames - 1 in order and advances
\* tail_frame by num_frames, so the k-th sample ever popped is the one of
\* frame k, none skipped and none delivered twice.
C35_FrameLabelling ==
  /\ [](\A i \in 1 .. Len(buffer) : buffer[i].frame = tail_frame + i - 1)
  /\ [][(ConsumeStep /\ Len(buffer) >= num_frames) =>
          /\ \A i \in 1 .. num_frames : output'[i].frame = tail_frame + i - 1
          /\ tail_frame' = tail_frame + num_frames]_vars

\* C35 witness: after an event was handled and two consumes took place, the
\* callback holds the sample of frame MaxFrame - 1 and the ring goes on at
\* frame MaxFrame.
C35_Witness ==
  /\ handled # <<>>
  /\ tail_frame = MaxFrame
  /\ cb_pc = "idle"
  /\ Len(output) = 1
  /\ output[1].frame = MaxFrame - 1
  /\ Len(buffer) >= 1
  /\ buffer[1].frame = MaxFrame

\* C36 (as claimed): an invocation whose wait loop was left on len >=
\* num_frames (with the timestamps early, the only way the loop is left)
\* consumes num_frames samples: the starvation branch is taken only by
\* invocations that gave up on the timestamps.
C36_WaitThenConsume ==
  [][(ConsumeStep /\ early) => last_consumed_size' = num_frames]_vars

\* ---- a second Mute
\* C37: once a mute has taken effect (mute_at = Some(r)), no
\* later step, a further Mute event and the renders after it included,
\* changes mute_at, and so the frame from which the note is reported finished
\* stays the same.
C37_MuteIdempotent ==
  [][hnote.mute_at # NoFrame =>
       /\ hnote'.mute_at = hnote.mute_at
       /\ \A t \in 0 .. MaxTime :
            note_finished(hnote', t) = note_finished(hnote, t)]_vars

\* C37 witness: the mute took effect at a frame the note had been rendered
\* up to before (not its first), and a further Mute has been delivered to the
\* note and is pending for the next render.
C37_Witness ==
  /\ hclock.live
  /\ hnote.mute_at # NoFrame
  /\ hnote.mute_at > 0
  /\ hnote.mute_pending

\* ---- more ConfigSpec claims
\* C32 (as claimed): current_state is the index of a mode of the state
\* machine in every reachable state, and neither the mode lookup of a key
\* press nor the lookup of the recorded mode at a key release fails.
C32_CurrentStateValid ==
  /\ valid_mode(state_machine, current_state)
  /\ (last_op.op \in {"press", "release"} /\ last_op.api = "none")
       => last_op.result = "ok"

\* The binding of chord in mode, once both exist.
Binding(sm, mode, chord) == sm[mode + 1].keys[chord]

\* sm2 differs from sm1 at most in the binding of chord in mode.
SameButBinding(sm1, sm2, mode, chord) ==
  /\ Len(sm2) = Len(sm1)
  /\ \A i \in 1 .. Len(sm1) :
       /\ sm2[i].default = sm1[i].default
       /\ DOMAIN sm2[i].keys = DOMAIN sm1[i].keys \cup
                                 (IF i = mode + 1 THEN {chord} ELSE {})
       /\ \A c \in DOMAIN sm1[i].keys :
            (i # mode + 1 \/ c # chord) => sm2[i].keys[c] = sm1[i].keys[c]

\* C39: a bind on (mode, chord) leaves that binding without a release
\* handler, whatever handler bindUp had attached to it before, and replaces
\* its press action and next_state; a key release then invokes exactly the
\* release handler the binding it resolves to has at that moment, none if
\* there is none; a bindUp changes the release handler of its binding and
\* keeps the press action and the next_state, and returns the handler it
\* replaced.
C39_BindReplacesBinding ==
  [][/\ (last_op'.op = "bind" /\ last_op'.result = "ok") =>
          LET mode == last_op'.state_num
              chord == last_op'.chord
              b == Binding(state_machine', mode, chord)
          IN /\ b.effect_up = NoCallback
             /\ b.effect = last_op'.effect
             /\ b.state = IF last_op'.next = NoMode THEN mode ELSE last_op'.next
             /\ SameButBinding(state_machine, state_machine', mode, chord)
     /\ (last_op'.op = "bindUp" /\ last_op'.result = "ok") =>
          LET mode == last_op'.state_num
              chord == last_op'.chord
              old == Binding(state_machine, mode, chord)
              b == Binding(state_machine', mode, chord)
          IN /\ b.effect_up = last_op'.effect
             /\ b.effect = old.effect
             /\ b.state = old.state
             /\ last_op'.returned = old.effect_up
             /\ SameButBinding(state_machine, state_machine', mode, chord)
     /\ (last_op'.op = "release" /\ last_op'.chord # NoChord) =>
          LET keys == state_machine[last_op'.state_num + 1].keys
          IN last_op'.effect =
               IF last_op'.chord \in DOMAIN keys
               THEN keys[last_op'.chord].effect_up
               ELSE NoCallback]_vars

\* C39 witness: a bind has just replaced a binding that had a release
\* handler; the new binding has the new press action and no release handler.
C39_Witness ==
  /\ stage = "load"
  /\ last_op.op = "bind"
  /\ last_op.result = "ok"
  /\ last_op.dropped # NoCallback
  /\ last_op.returned # NoCallback
  /\ Binding(state_machine, last_op.state_num, last_op.chord).effect_up = NoCallback
  /\ Binding(state_machine, last_op.state_num, last_op.chord).effect = last_op.effect

\* ---- InputSpec claims
\* The Hit and Mute events sent for voice v, in send order.
VoiceEvents(v) ==
  SelectSeq(isent, LAMBDA e : e.kind \in {"Hit", "Mute"} /\ e.voice = v)

\* The mapped codes and their voices.
MappedCodes == {c \in InputCodes : code_to_pitch_and_voice(c) # NoKeyNote}

\* C38: a KeyDown for a code already held and a KeyUp for a code not held
\* send nothing, and neither does any event of an unmapped code; a KeyDown
\* that sends, sends SetParam(pitch of the code) and then Hit of its voice, a
\* KeyUp that sends, sends Mute of its voice; so in every state the Hit and
\* Mute events sent for the voice of a mapped code alternate, starting with a
\* Hit, every Hit directly after the SetParam of its pitch, and the code is
\* held exactly when its last Hit has no Mute after it.
C38_AlternatingKeyEvents ==
  /\ [](\A c \in MappedCodes :
          LET pv == code_to_pitch_and_voice(c)
              ve == VoiceEvents(pv.voice)
          IN /\ \A i \in 1 .. Len(ve) :
                  ve[i].kind = IF i % 2 = 1 THEN "Hit" ELSE "Mute"
             /\ (c \in pressed) = (Len(ve) % 2 = 1)
             /\ \A i \in 1 .. Len(isent) :
                  (isent[i].kind = "Hit" /\ isent[i].voice = pv.voice) =>
                     /\ i > 1
                     /\ isent[i - 1] = send(<<>>, NextNotePitch(pv.pitch), i - 1)[1])
  /\ [](\A i \in 1 .. Len(isent) :
          /\ isent[i].kind \in {"InstSetParam", "Hit", "Mute"}
          /\ isent[i].kind = "InstSetParam" =>
               i < Len(isent) /\ isent[i + 1].kind = "Hit")
  /\ [][/\ (last_win'.kind = "KeyDown" /\ last_win'.code \in pressed) =>
            isent' = isent
        /\ (last_win'.kind = "KeyUp" /\ last_win'.code \notin pressed) =>
            isent' = isent
        /\ (last_win'.code \notin MappedCodes /\ nwin' # nwin) => isent' = isent
        /\ (last_win'.kind = "KeyDown" /\ last_win'.code \in MappedCodes
            /\ last_win'.code \notin pressed) =>
             Len(isent') = Len(isent) + 2
        /\ (last_win'.kind = "KeyUp" /\ last_win'.code \in MappedCodes
            /\ last_win'.code \in pressed) =>
             /\ Len(isent') = Len(isent) + 1
             /\ isent'[Len(isent')].kind = "Mute"]_vars

\* C38 witness: KeyA was pressed, released and pressed again (Hit, Mute, Hit
\* sent for its voice), and the last window event was a KeyDown of KeyA
\* while it was held, which sent nothing more.
C38_Witness ==
  /\ Len(VoiceEvents(0)) = 3
  /\ Len(isent) = 5
  /\ nwin = 4
  /\ last_win = [kind |-> "KeyDown", code |-> "KeyA"]
  /\ "KeyA" \in pressed

====
